---- MODULE Spec2Model ----
(***************************************************************************)
(* Asynchronous selection-set resolution of juniper                        *)
(* (juniper/src/types/async_await.rs) together with the instance resolvers *)
(* of graphql_interface! (juniper/src/macros/interface.rs).                *)
(*                                                                         *)
(* One frame per activation of resolve_selection_set_into_async_recursive. *)
(* A frame is named by the path of selection indices that leads to it from *)
(* the root selection set.  Each frame runs the build loop over its        *)
(* selections, then the drain loop over its FuturesOrdered queue.  The     *)
(* futures of a queue advance in any order; their outputs are taken in the *)
(* order in which they were pushed.                                        *)
(***************************************************************************)
EXTENDS Naturals, Sequences, FiniteSets, TLC

\* frames, errors, panic: one query being resolved; call: one call of a
\* method of GraphQLType / GraphQLTypeAsync made through an ownership wrapper
VARIABLES frames, errors, panic, call

vars == <<frames, errors, panic, call>>

(***************************************************************************)
(* Bounds of the model.                                                    *)
(***************************************************************************)
\* longest root selection set drawn from the atoms
MaxSel == 2

\* most futures one document can have in flight at once
MaxWidth == 2

(***************************************************************************)
(* Value<S>: Null | Scalar | Object.  NoneV stands for Option::None where  *)
(* the code holds an Option<Value<S>>.                                     *)
(***************************************************************************)
NoScalar == [str |-> "", src |-> <<>>]

NullV == [tag |-> "Null", s |-> NoScalar, kv |-> <<>>]

NoneV == [tag |-> "None", s |-> NoScalar, kv |-> <<>>]

ScalarV(x) == [tag |-> "Scalar", s |-> x, kv |-> <<>>]

\* an object handed back as a list of its pairs rather than as Value::Object
ObjectVAsList(o) == [tag |-> "List", s |-> NoScalar, kv |-> o]

ObjectV(o) == [tag |-> "Object", s |-> NoScalar, kv |-> o]

\* the keys of an Object, in its order
Keys(o) == [n \in 1..Len(o) |-> o[n].k]

HasKey(o, k) == \E n \in 1..Len(o) : o[n].k = k

\* the value stored under key k (k is present)
Get(o, k) == o[CHOOSE n \in 1..Len(o) : o[n].k = k].v

\* Object::add_field: replace the value of a present key in place, else append
add_field(o, k, v) ==
    IF HasKey(o, k)
    THEN [n \in 1..Len(o) |-> IF o[n].k = k THEN [k |-> k, v |-> v] ELSE o[n]]
    ELSE Append(o, [k |-> k, v |-> v])

\* base::merge_key_into: a later merge of a present key overwrites it
merge_key_into(o, k, v) == add_field(o, k, v)

(***************************************************************************)
(* The schema: interface Character with the instance resolvers             *)
(*     &Human => ..., &Droid => ...                                        *)
(* and the object types Human and Droid.  All three expose                 *)
(*     id: String!   name: String   friend: Character   best: Character!   *)
(*     alien: Alien  greet(who: String = "world"): String                  *)
(*     shout(text: String!): String                                        *)
(* Plain is a type that overrides none of the asynchronous methods; Alien  *)
(* is a type the schema does not hold.                                     *)
(***************************************************************************)
SchemaTypes == {"Character", "Human", "Droid", "Plain"}

\* the arms of instance_resolvers, in declaration order
InstanceResolvers == <<"Human", "Droid">>

\* of: the type of the value an object field yields; narrows: the resolver
\* yields its value together with a narrower context
MetaFields ==
    [id     |-> [non_null |-> TRUE,  object |-> FALSE, of |-> "",
                 narrows |-> FALSE],
     name   |-> [non_null |-> FALSE, object |-> FALSE, of |-> "",
                 narrows |-> FALSE],
     friend |-> [non_null |-> FALSE, object |-> TRUE,  of |-> "Character",
                 narrows |-> FALSE],
     best   |-> [non_null |-> TRUE,  object |-> TRUE,  of |-> "Character",
                 narrows |-> TRUE],
     alien  |-> [non_null |-> FALSE, object |-> TRUE,  of |-> "Alien",
                 narrows |-> FALSE],
     greet  |-> [non_null |-> FALSE, object |-> FALSE, of |-> "",
                 narrows |-> FALSE],
     shout  |-> [non_null |-> FALSE, object |-> FALSE, of |-> "",
                 narrows |-> FALSE]]

\* SchemaType::concrete_type_by_name
concrete_type_by_name(tname) == tname \in SchemaTypes

\* MetaType::field_by_name
field_by_name(tname, fname) == fname \in DOMAIN MetaFields

\* An instance is what each instance resolver yields for it: Some or None;
\* err: the resolve of the value an arm yields returns an error.
Luke == [Human |-> TRUE, Droid |-> FALSE, err |-> FALSE]

R2D2 == [Human |-> FALSE, Droid |-> TRUE, err |-> FALSE]

\* an instance for which both resolvers yield Some
Both == [Human |-> TRUE, Droid |-> TRUE, err |-> FALSE]

\* an instance whose concrete value fails to resolve
Faulty == [Human |-> TRUE, Droid |-> FALSE, err |-> TRUE]

\* an instance no instance resolver matches
Nobody == [Human |-> FALSE, Droid |-> FALSE, err |-> FALSE]

RootInstances == {R2D2, Both}

\* the context database behind the friend and best resolvers
Friend(inst) == [inst EXCEPT !.Human = inst.Droid, !.Droid = inst.Human]

NoPanic == ""

PanicUnhandled == "Concrete type not handled by instance resolvers"

PanicNoField == "Field not found on type"

PanicNoFragment == "Fragment could not be found"

PanicNoDowncast == "resolve_into_type_async must be implemented by unions and interfaces"

PanicUnreachable == "unreachable"

PanicNoType == "Type not found in schema"

PanicNoResolveField == "resolve_field must be implemented by object types"

PanicNoResolve == "resolve() must be implemented by non-object output types"

PanicNoArgument == "Argument missing - validation must have failed"

\* a scan that lets the last matching arm win
LastSome(inst, arms) ==
    LET RECURSIVE Scan(_)
        Scan(n) == IF n < 1 THEN PanicUnhandled
                   ELSE IF inst[arms[n]] THEN arms[n]
                   ELSE Scan(n - 1)
    IN Scan(Len(arms))

\* the first arm, in declaration order, whose resolver yields Some
FirstSome(inst, arms) ==
    LET RECURSIVE Scan(_)
        Scan(n) == IF n > Len(arms) THEN PanicUnhandled
                   ELSE IF inst[arms[n]] THEN arms[n]
                   ELSE Scan(n + 1)
    IN Scan(1)

\* the arms whose resolver expression concrete_type_name evaluates: every
\* arm up to and including the first that yields Some
concrete_type_name_evals(tname, inst) ==
    LET arms == InstanceResolvers
        RECURSIVE Scan(_)
        Scan(n) == IF n > Len(arms) THEN <<>>
                   ELSE IF inst[arms[n]] THEN <<arms[n]>>
                   ELSE <<arms[n]>> \o Scan(n + 1)
    IN IF tname = "Character" THEN Scan(1) ELSE <<>>

\* concrete_type_name: the interface runs its instance resolvers in order,
\* an object type answers with its own name
concrete_type_name(tname, inst) ==
    IF tname = "Character" THEN FirstSome(inst, InstanceResolvers) ELSE tname

(***************************************************************************)
(* Selections.  alias = "" and cond = "" stand for None; sub = <<>> is the *)
(* absent selection set of a leaf field.  A directive is skip or include   *)
(* with a variable as its `if` argument.  An InputValue is a String, an    *)
(* Int, Null or a Variable.                                                *)
(***************************************************************************)
StringI(x) == [t |-> "String", x |-> x]

IntI(x) == [t |-> "Int", x |-> x]

NullI == [t |-> "Null", x |-> ""]

VariableI(x) == [t |-> "Variable", x |-> x]

\* the variables of the executor
Variables == [yes |-> TRUE, no |-> FALSE, w |-> StringI("Leia")]

Field(alias, name, pos, sub) ==
    [kind |-> "Field", alias |-> alias, name |-> name, pos |-> pos,
     directives |-> <<>>, cond |-> "", sub |-> sub, arguments |-> <<>>]

FragmentSpread(name, pos) ==
    [kind |-> "FragmentSpread", alias |-> "", name |-> name, pos |-> pos,
     directives |-> <<>>, cond |-> "", sub |-> <<>>, arguments |-> <<>>]

InlineFragment(cond, pos, sub) ==
    [kind |-> "InlineFragment", alias |-> "", name |-> "", pos |-> pos,
     directives |-> <<>>, cond |-> cond, sub |-> sub, arguments |-> <<>>]

\* a selection with directives, a field with arguments
Directed(sel, directives) == [sel EXCEPT !.directives = directives]

WithArguments(sel, arguments) == [sel EXCEPT !.arguments = arguments]

Skip(var) == [name |-> "skip", arg |-> var]

Include(var) == [name |-> "include", arg |-> var]

\* meta_field.arguments: the declared arguments with their defaults
\* (default.t = "None": the argument declares no default)
NoDefault == [t |-> "None", x |-> ""]

MetaArguments(fname) ==
    CASE fname = "greet" -> <<[name |-> "who", default |-> StringI("world")]>>
      [] fname = "shout" -> <<[name |-> "text", default |-> NoDefault]>>
      [] OTHER -> <<>>

\* InputValue::into_const: a variable is replaced by its current value
into_const(v, variables) ==
    IF v.t = "Variable"
    THEN IF v.x \in DOMAIN variables THEN variables[v.x] ELSE NullI
    ELSE v

HasArg(args, k) == \E n \in 1..Len(args) : args[n].k = k

\* Arguments::new: the given arguments, and the declared default of every
\* argument that is not given
Arguments_new(args, meta_arguments) ==
    LET RECURSIVE Go(_, _)
        Go(acc, n) ==
            IF n > Len(meta_arguments) THEN acc
            ELSE IF ~HasArg(acc, meta_arguments[n].name)
                    /\ meta_arguments[n].default.t # "None"
            THEN Go(Append(acc, [k |-> meta_arguments[n].name,
                                 v |-> meta_arguments[n].default]), n + 1)
            ELSE Go(acc, n + 1)
    IN Go(args, 1)

\* Arguments::get::<String>: the value of the argument converted to the
\* declared type, None when it is absent or does not convert
Arguments_get(args, k) ==
    IF \E n \in 1..Len(args) : args[n].k = k /\ args[n].v.t = "String"
    THEN "Some" ELSE "None"

\* base::is_excluded: skip-if-true / include-if-false
is_excluded(directives, variables) ==
    \E n \in 1..Len(directives) :
        \/ directives[n].name = "skip" /\ variables[directives[n].arg]
        \/ directives[n].name = "include" /\ ~variables[directives[n].arg]

\* f.alias.as_ref().unwrap_or(&f.name)
response_name(sel) == IF sel.alias # "" THEN sel.alias ELSE sel.name

\* the fragment table of the document
Fragments == [F |-> <<Field("", "id", 101, <<>>)>>]

fragment_by_name(name) == name \in DOMAIN Fragments

(***************************************************************************)
(* Frames, units and the error sink.                                       *)
(***************************************************************************)
\* ExecutionResult<S>: Ok(value) or Err(error)
Ok(v) == [tag |-> "Ok", value |-> v]

Err == [tag |-> "Err", value |-> NoneV]

\* no result yet
NoRes == [tag |-> "", value |-> NoneV]

\* AsyncValue::Field(AsyncField {name, value}) and AsyncValue::Nested(value)
NoOut == [av |-> "", name |-> "", value |-> NoneV]

AsyncField(name, value) == [av |-> "Field", name |-> name, value |-> value]

AsyncNested(value) == [av |-> "Nested", name |-> "", value |-> value]

\* one future of the FuturesOrdered queue, made from selection `sel`; res is
\* the result its resolver returned, out the output of the future; st runs
\* new, running, awaiting, done, and taken once the drain loop has it
Unit(kind, sel, name, val) ==
    [kind |-> kind, sel |-> sel, st |-> "new", name |-> name, val |-> val,
     res |-> NoRes, out |-> NoOut, args |-> <<>>]

\* the context of the query's executor
RootContext == "Database"

\* the context a resolver yields together with its value
NarrowContext(fname) == "Database/" \o fname

\* the state of resolve_selection_set_into_async_recursive on entry to its
\* loop; ctx is the context of its executor, evals the instance resolvers
\* whose expressions the activation has evaluated
Frame(sels, tname, inst, epath) ==
    [sels |-> sels, tname |-> tname, inst |-> inst, epath |-> epath,
     pc |-> "build", i |-> 1, queue |-> <<>>, object |-> <<>>, ret |-> NoneV,
     ctx |-> RootContext, evals |-> <<>>]

\* Executor::push_error_at through a sub-executor whose field path is `path`
push_error_at(errs, path, pos) == Append(errs, [pos |-> pos, path |-> path])

\* the value a leaf resolver produces in the invocation made for selection
\* `sel` of frame `p`: every invocation produces its own value
Fresh(p, sel, name) == ScalarV([str |-> name, src |-> Append(p, sel)])

IsPrefix(p, q) == Len(p) < Len(q) /\ SubSeq(q, 1, Len(p)) = p

Child(p, sel) == Append(p, sel)

\* the for loop moves to the next selection; after the last one the drain
\* loop begins
Advance(f) ==
    [f EXCEPT !.i = f.i + 1,
              !.pc = IF f.i + 1 > Len(f.sels) THEN "drain" ELSE "build"]

SetFrame(p, f) == [frames EXCEPT ![p] = f]

\* frame p becomes f and a new activation c starts with frame cf
Spawn(p, f, c, cf) ==
    [q \in DOMAIN frames \cup {c} |->
        IF q = c THEN cf ELSE IF q = p THEN f ELSE frames[q]]

\* a match that forgets the declared non-null type
FieldValueNullable(res, is_non_null) ==
    IF res.tag = "Ok" THEN res.value ELSE NullV

\* a match that lets every Null collapse the object
FieldValueNullCollapses(res, is_non_null) ==
    IF res.tag = "Ok"
    THEN IF res.value = NullV THEN NoneV ELSE res.value
    ELSE IF is_non_null THEN NoneV ELSE NullV

\* a match that lets every error collapse the object
FieldValueErrCollapses(res, is_non_null) ==
    IF res.tag = "Ok"
    THEN IF res.value = NullV /\ is_non_null THEN NoneV ELSE res.value
    ELSE NoneV

\* an activation that does not look its type up in the schema
ActivateUnchecked(p, f, c, cf) ==
    frames' = Spawn(p, f, c, cf) /\ UNCHANGED <<errors, panic>>

\* a nested activation c starts with frame cf while frame p becomes f: the
\* function looks up the meta type of its instance before its loop
Activate(p, f, c, cf) ==
    IF concrete_type_by_name(cf.tname)
    THEN frames' = Spawn(p, f, c, cf) /\ UNCHANGED <<errors, panic>>
    ELSE panic' = PanicNoType /\ UNCHANGED <<frames, errors>>

\* the match on the resolver's result: Some(value) to merge, or None for a
\* non-null field that failed or resolved to Null
FieldValue(res, is_non_null) ==
    IF res.tag = "Ok"
    THEN IF res.value = NullV /\ is_non_null THEN NoneV ELSE res.value
    ELSE IF is_non_null THEN NoneV ELSE NullV

\* sub-executors below the root that keep a sink of their own
field_error_private(errs, f, u, sel) ==
    IF f.epath = <<>>
    THEN push_error_at(errs, Append(f.epath, u.name), sel.pos)
    ELSE errs

\* Err(e) => sub_exec.push_error_at(e, pos): the field's sub-executor
\* appends to the sink of the query
field_error(errs, f, u, sel) ==
    push_error_at(errs, Append(f.epath, u.name), sel.pos)

\* the field future runs to its end with the resolver's result `res`
CompleteField(p, n, res) ==
    LET f   == frames[p]
        u   == f.queue[n]
        sel == f.sels[u.sel]
        nn  == MetaFields[sel.name].non_null
        out == AsyncField(u.name, FieldValue(res, nn))
    IN /\ frames' = SetFrame(p, [f EXCEPT !.queue[n].st = "done",
                                           !.queue[n].res = res,
                                           !.queue[n].out = out])
       /\ errors' = IF res.tag = "Ok" THEN errors
                    ELSE field_error(errors, f, u, sel)
       /\ UNCHANGED panic

Runs(p) == panic = NoPanic /\ p \in DOMAIN frames

\* future n of frame p is in the queue the drain loop polls
Pending(p, n) ==
    /\ Runs(p)
    /\ frames[p].pc = "drain"
    /\ n \in DOMAIN frames[p].queue
    /\ frames[p].queue[n].st # "taken"

\* a queue that hands out outputs as they complete (FuturesUnordered): the
\* newest completed future first
\* the outputs in completion order, as FuturesUnordered would give them
NextOutputUnordered(queue) ==
    IF \A n \in DOMAIN queue : queue[n].st = "taken" THEN 0
    ELSE IF \E n \in DOMAIN queue : queue[n].st = "done"
    THEN CHOOSE n \in DOMAIN queue :
             /\ queue[n].st = "done"
             /\ \A m \in 1..(n - 1) : queue[m].st # "done"
    ELSE CHOOSE n \in DOMAIN queue : queue[n].st # "taken"

NextOutputRacy(queue) ==
    IF \A n \in DOMAIN queue : queue[n].st = "taken" THEN 0
    ELSE IF \E n \in DOMAIN queue : queue[n].st = "done"
    THEN CHOOSE n \in DOMAIN queue :
             /\ queue[n].st = "done"
             /\ \A m \in (n + 1)..Len(queue) : queue[m].st # "done"
    ELSE CHOOSE n \in DOMAIN queue : queue[n].st # "taken"

\* FuturesOrdered::poll_next: the output handed out next is that of the
\* oldest future still in the queue (0: the queue is empty)
NextOutput(queue) ==
    IF \A n \in DOMAIN queue : queue[n].st = "taken" THEN 0
    ELSE CHOOSE n \in DOMAIN queue :
             /\ queue[n].st # "taken"
             /\ \A m \in 1..(n - 1) : queue[m].st = "taken"


\* Option<T>::resolve behind executor.resolve: None resolves to Ok(Null),
\* Some(value) goes on to the full resolution of the value, which is an Err
\* when the value fails to resolve
resolve_option(yields, fails) ==
    IF ~yields THEN "none" ELSE IF fails THEN "err" ELSE "some"

\* a downcast that does not look at what the arm yields
resolve_into_type_always(tname, inst, type_name) ==
    IF tname = "Character"
    THEN IF \E n \in 1..Len(InstanceResolvers) : InstanceResolvers[n] = type_name
         THEN "some"
         ELSE PanicUnhandled
    ELSE IF tname = type_name THEN "some" ELSE PanicNoDowncast

\* a downcast that evaluates the resolver of every arm it passes
resolve_into_type_evals_scan(tname, inst, type_name) ==
    LET arms == InstanceResolvers
        RECURSIVE Scan(_)
        Scan(n) == IF n > Len(arms) THEN <<>>
                   ELSE IF arms[n] = type_name THEN <<arms[n]>>
                   ELSE <<arms[n]>> \o Scan(n + 1)
    IN IF tname = "Character" THEN Scan(1) ELSE <<>>

\* the arms whose resolver expression resolve_into_type evaluates: the
\* expression stands inside the branch taken when the names are equal
resolve_into_type_evals(tname, inst, type_name) ==
    LET arms == InstanceResolvers
        RECURSIVE Scan(_)
        Scan(n) == IF n > Len(arms) THEN <<>>
                   ELSE IF arms[n] = type_name THEN <<arms[n]>>
                   ELSE Scan(n + 1)
    IN IF tname = "Character" THEN Scan(1) ELSE <<>>

\* resolve_into_type: the interface evaluates the one arm whose type name is
\* the requested one; an object type (the default method) resolves itself
\* under its own name.  "some": full resolution of the value follows;
\* "none": the arm yielded None, which resolves to Ok(Null).
\* a default resolve_into_type_async that would skip a foreign type name
resolve_into_type_lenient(tname, inst, type_name) ==
    IF tname = "Character"
    THEN IF \E n \in 1..Len(InstanceResolvers) : InstanceResolvers[n] = type_name
         THEN resolve_option(inst[type_name], inst.err)
         ELSE PanicUnhandled
    ELSE IF tname = type_name THEN "some" ELSE "none"

resolve_into_type(tname, inst, type_name) ==
    IF tname = "Character"
    THEN IF \E n \in 1..Len(InstanceResolvers) : InstanceResolvers[n] = type_name
         THEN resolve_option(inst[type_name], inst.err)
         ELSE PanicUnhandled
    ELSE IF tname = type_name THEN "some" ELSE PanicNoDowncast

(***************************************************************************)
(* The build loop: one step per selection of the selection set.            *)
(***************************************************************************)
\* a loop that skips no selection
SkipsNothing(sel) == FALSE

\* if is_excluded(&directives, executor.variables()) { continue; }
Skips(sel) == is_excluded(sel.directives, Variables)

\* the arguments of a field: the query's arguments with the variables
\* replaced, completed by the declared defaults
\* the query's arguments handed over as written
FieldArgumentsAsWritten(sel) == sel.arguments

FieldArguments(sel) ==
    Arguments_new([n \in 1..Len(sel.arguments) |->
                      [k |-> sel.arguments[n].k,
                       v |-> into_const(sel.arguments[n].v, Variables)]],
                  MetaArguments(sel.name))

\* Selection::Field
BuildField(p) ==
    /\ Runs(p)
    /\ frames[p].pc = "build"
    /\ frames[p].sels[frames[p].i].kind = "Field"
    /\ LET f   == frames[p]
           sel == f.sels[f.i]
           tn  == concrete_type_name(f.tname, f.inst)
       IN IF Skips(sel)
          THEN frames' = SetFrame(p, Advance(f)) /\ UNCHANGED <<errors, panic>>
          ELSE IF sel.name = "__typename"
          THEN IF tn = PanicUnhandled
               THEN panic' = tn /\ UNCHANGED <<frames, errors>>
               ELSE /\ frames' = SetFrame(p, Advance(
                         [f EXCEPT !.object =
                             add_field(@, response_name(sel),
                                       ScalarV([str |-> tn, src |-> <<>>])),
                                   !.evals = @ \o concrete_type_name_evals(
                                                      f.tname, f.inst)]))
                    /\ UNCHANGED <<errors, panic>>
          ELSE IF ~field_by_name(f.tname, sel.name)
          THEN panic' = PanicNoField /\ UNCHANGED <<frames, errors>>
          ELSE /\ frames' = SetFrame(p, Advance(
                    [f EXCEPT !.queue =
                        Append(@, [Unit("Field", f.i, response_name(sel), NoneV)
                                      EXCEPT !.args = FieldArguments(sel)])]))
               /\ UNCHANGED <<errors, panic>>

\* Selection::FragmentSpread
BuildFragmentSpread(p) ==
    /\ Runs(p)
    /\ frames[p].pc = "build"
    /\ frames[p].sels[frames[p].i].kind = "FragmentSpread"
    /\ LET f   == frames[p]
           sel == f.sels[f.i]
       IN IF Skips(sel)
          THEN frames' = SetFrame(p, Advance(f))
          ELSE frames' = SetFrame(p, Advance(
                   [f EXCEPT !.queue =
                       Append(@, Unit("FragmentSpread", f.i, "", NoneV))]))
    /\ UNCHANGED <<errors, panic>>

\* a branch that drops the error of a downcast resolution
downcast_error_dropped(errs, f, sel) == errs

\* else if let Err(e) = sub_result: sub_exec.push_error_at(e, start_pos)
downcast_error(errs, f, sel) == push_error_at(errs, f.epath, sel.pos)

\* Selection::InlineFragment: with a type condition the downcast resolution
\* is awaited inside the loop, without one a future is pushed
BuildInlineFragment(p) ==
    /\ Runs(p)
    /\ frames[p].pc = "build"
    /\ frames[p].sels[frames[p].i].kind = "InlineFragment"
    /\ LET f   == frames[p]
           sel == f.sels[f.i]
           r   == resolve_into_type(f.tname, f.inst, sel.cond)
           g   == [f EXCEPT !.evals = @ \o resolve_into_type_evals(
                                               f.tname, f.inst, sel.cond)]
       IN IF Skips(sel)
          THEN frames' = SetFrame(p, Advance(f)) /\ UNCHANGED <<errors, panic>>
          ELSE IF sel.cond = ""
          THEN /\ frames' = SetFrame(p, Advance(
                    [f EXCEPT !.queue =
                        Append(@, Unit("InlineFragment2", f.i, "", NoneV))]))
               /\ UNCHANGED <<errors, panic>>
          ELSE IF r = "some"
          THEN Activate(p, [g EXCEPT !.pc = "await"], Child(p, f.i),
                        [Frame(sel.sub, sel.cond, f.inst, f.epath)
                            EXCEPT !.ctx = f.ctx])
          ELSE IF r = "none"
          THEN frames' = SetFrame(p, Advance(g)) /\ UNCHANGED <<errors, panic>>
          ELSE IF r = "err"
          THEN /\ frames' = SetFrame(p, Advance(g))
               /\ errors' = downcast_error(errors, f, sel)
               /\ UNCHANGED panic
          ELSE panic' = r /\ UNCHANGED <<frames, errors>>

\* the keys of the object a downcast resolution returned, one future each
InlineUnits(sel, obj) ==
    [n \in 1..Len(obj) |-> Unit("InlineFragment1", sel, obj[n].k, obj[n].v)]

\* the awaited downcast resolution returns sub_result = Ok(value)
InlineReturn(p) ==
    /\ Runs(p)
    /\ frames[p].pc = "await"
    /\ frames[Child(p, frames[p].i)].pc = "done"
    /\ LET f   == frames[p]
           sub == frames[Child(p, f.i)].ret
       IN frames' = SetFrame(p, Advance(
              IF sub.tag = "Object"
              THEN [f EXCEPT !.queue = @ \o InlineUnits(f.i, sub.kv)]
              ELSE f))
    /\ UNCHANGED <<errors, panic>>

(***************************************************************************)
(* The futures of the queue.  They are polled only by the drain loop, so   *)
(* none of them starts before the build loop has ended.                    *)
(***************************************************************************)
\* resolve_field reads every declared argument with args.get(..).expect(..)
MissingArgument(args, meta_arguments) ==
    \E n \in 1..Len(meta_arguments) :
        Arguments_get(args, meta_arguments[n].name) = "None"

\* first poll of a field future: resolve_field_async is invoked, reads its
\* arguments and suspends; the default method of a type without it panics
StartField(p, n) ==
    /\ Pending(p, n)
    /\ frames[p].queue[n].kind = "Field"
    /\ frames[p].queue[n].st = "new"
    /\ LET f   == frames[p]
           u   == f.queue[n]
           sel == f.sels[u.sel]
       IN IF f.tname = "Plain"
          THEN panic' = PanicNoResolveField /\ UNCHANGED <<frames, errors>>
          ELSE IF MissingArgument(u.args, MetaArguments(sel.name))
          THEN panic' = PanicNoArgument /\ UNCHANGED <<frames, errors>>
          ELSE /\ frames' = SetFrame(p, [f EXCEPT !.queue[n].st = "running"])
               /\ UNCHANGED <<errors, panic>>

\* the resolver of a leaf field completes: a value, Null or an error
ResolveLeaf(p, n) ==
    /\ Pending(p, n)
    /\ frames[p].queue[n].kind = "Field"
    /\ frames[p].queue[n].st = "running"
    /\ LET f   == frames[p]
           u   == f.queue[n]
           sel == f.sels[u.sel]
       IN /\ ~MetaFields[sel.name].object
          /\ \E res \in {Ok(Fresh(p, u.sel, sel.name)), Ok(NullV), Err} :
                 CompleteField(p, n, res)

\* IntoResolvable::into and Executor::replaced_context: the context of the
\* executor that resolves the value a resolver yielded
\* a resolver result whose context is ignored
replaced_context_ignored(ctx, fname) == ctx

replaced_context(ctx, fname) ==
    IF MetaFields[fname].narrows THEN NarrowContext(fname) ELSE ctx

\* the resolver of an object field yields an error, None, or Some(child);
\* the child is resolved against the field's selection set by a sub-executor
ResolveObject(p, n) ==
    /\ Pending(p, n)
    /\ frames[p].queue[n].kind = "Field"
    /\ frames[p].queue[n].st = "running"
    /\ LET f   == frames[p]
           u   == f.queue[n]
           sel == f.sels[u.sel]
       IN /\ MetaFields[sel.name].object
          /\ \/ CompleteField(p, n, Err)
             \/ CompleteField(p, n, Ok(NullV))
             \/ IF sel.sub = <<>>
                THEN panic' = PanicNoResolve /\ UNCHANGED <<frames, errors>>
                ELSE Activate(p, [f EXCEPT !.queue[n].st = "awaiting"],
                              Child(p, u.sel),
                              [Frame(sel.sub, MetaFields[sel.name].of,
                                     Friend(f.inst), Append(f.epath, u.name))
                                  EXCEPT !.ctx = replaced_context(f.ctx, sel.name)])

\* the child's selection set is resolved: resolve_async returns Ok(value)
FieldReturn(p, n) ==
    /\ Pending(p, n)
    /\ frames[p].queue[n].kind = "Field"
    /\ frames[p].queue[n].st = "awaiting"
    /\ frames[Child(p, frames[p].queue[n].sel)].pc = "done"
    /\ CompleteField(p, n, Ok(frames[Child(p, frames[p].queue[n].sel)].ret))

\* first poll of a fragment-spread future or of the future of an inline
\* fragment without type condition: the nested resolution starts
StartNested(p, n) ==
    /\ Pending(p, n)
    /\ frames[p].queue[n].kind \in {"FragmentSpread", "InlineFragment2"}
    /\ frames[p].queue[n].st = "new"
    /\ LET f   == frames[p]
           u   == f.queue[n]
           sel == f.sels[u.sel]
           g   == [f EXCEPT !.queue[n].st = "awaiting"]
       IN IF u.kind = "InlineFragment2"
          THEN Activate(p, g, Child(p, u.sel),
                        [Frame(sel.sub, f.tname, f.inst, f.epath)
                            EXCEPT !.ctx = f.ctx])
          ELSE IF fragment_by_name(sel.name)
          THEN Activate(p, g, Child(p, u.sel),
                        [Frame(Fragments[sel.name], f.tname, f.inst, f.epath)
                            EXCEPT !.ctx = f.ctx])
          ELSE panic' = PanicNoFragment /\ UNCHANGED <<frames, errors>>

\* the nested resolution returns its value
NestedReturn(p, n) ==
    /\ Pending(p, n)
    /\ frames[p].queue[n].kind \in {"FragmentSpread", "InlineFragment2"}
    /\ frames[p].queue[n].st = "awaiting"
    /\ frames[Child(p, frames[p].queue[n].sel)].pc = "done"
    /\ frames' = SetFrame(p,
           [frames[p] EXCEPT
               !.queue[n].st = "done",
               !.queue[n].out =
                   AsyncNested(frames[Child(p, frames[p].queue[n].sel)].ret)])
    /\ UNCHANGED <<errors, panic>>

\* the future of one key of a downcast result is ready at its first poll
PollInlineKey(p, n) ==
    /\ Pending(p, n)
    /\ frames[p].queue[n].kind = "InlineFragment1"
    /\ frames[p].queue[n].st = "new"
    /\ frames' = SetFrame(p,
           [frames[p] EXCEPT
               !.queue[n].st = "done",
               !.queue[n].out = AsyncField(frames[p].queue[n].name,
                                           frames[p].queue[n].val)])
    /\ UNCHANGED <<errors, panic>>

(***************************************************************************)
(* The drain loop.                                                         *)
(***************************************************************************)
\* every key of a nested object is merged, in the nested object's order
MergeAll(object, kv) ==
    LET RECURSIVE Go(_, _)
        Go(o, n) == IF n > Len(kv) THEN o
                    ELSE Go(merge_key_into(o, kv[n].k, kv[n].v), n + 1)
    IN Go(object, 1)

\* a merge that keeps the entry of a key already present
MergeAbsent(object, kv) ==
    LET RECURSIVE Go(_, _)
        Go(o, n) == IF n > Len(kv) THEN o
                    ELSE IF HasKey(o, kv[n].k) THEN Go(o, n + 1)
                    ELSE Go(Append(o, kv[n]), n + 1)
    IN Go(object, 1)

\* a loop body whose merges never overwrite
DrainItemKeepFirst(object, item) ==
    IF item.av = "Field"
    THEN IF item.value # NoneV
         THEN [act |-> "merge",
               object |-> MergeAbsent(object,
                                      <<[k |-> item.name, v |-> item.value]>>)]
         ELSE [act |-> "null", object |-> object]
    ELSE IF item.value.tag = "Null"
    THEN [act |-> "null", object |-> object]
    ELSE IF item.value.tag = "Object"
    THEN [act |-> "merge", object |-> MergeAbsent(object, item.value.kv)]
    ELSE [act |-> "unreachable", object |-> object]

\* what the body of the while loop does with one item: "merge" continues
\* with the new object, "null" returns Value::null(), "unreachable" panics
DrainItem(object, item) ==
    IF item.av = "Field"
    THEN IF item.value # NoneV
         THEN [act |-> "merge",
               object |-> merge_key_into(object, item.name, item.value)]
         ELSE [act |-> "null", object |-> object]
    ELSE IF item.value.tag = "Null"
    THEN [act |-> "null", object |-> object]
    ELSE IF item.value.tag = "Object"
    THEN [act |-> "merge", object |-> MergeAll(object, item.value.kv)]
    ELSE [act |-> "unreachable", object |-> object]

\* the function returns early: the queue and with it every future that has
\* not completed is dropped, and so is every activation below them
ReturnNull(p) ==
    [q \in DOMAIN frames |->
        IF q = p
        THEN [frames[p] EXCEPT
                 !.pc = "done", !.ret = NullV,
                 !.queue = [n \in DOMAIN frames[p].queue |->
                     IF frames[p].queue[n].st \in {"done", "taken"}
                     THEN frames[p].queue[n]
                     ELSE [frames[p].queue[n] EXCEPT !.st = "dropped"]]]
        ELSE IF IsPrefix(p, q) /\ frames[q].pc # "done"
        THEN [frames[q] EXCEPT !.pc = "dropped"]
        ELSE frames[q]]

\* async_values.next().await yields the output of the oldest future
Drain(p) ==
    /\ Runs(p)
    /\ frames[p].pc = "drain"
    /\ NextOutput(frames[p].queue) # 0
    /\ frames[p].queue[NextOutput(frames[p].queue)].st = "done"
    /\ LET f == frames[p]
           h == NextOutput(f.queue)
           d == DrainItem(f.object, f.queue[h].out)
       IN IF d.act = "merge"
          THEN /\ frames' = SetFrame(p, [f EXCEPT !.object = d.object,
                                                   !.queue[h].st = "taken"])
               /\ UNCHANGED <<errors, panic>>
          ELSE IF d.act = "null"
          THEN frames' = ReturnNull(p) /\ UNCHANGED <<errors, panic>>
          ELSE panic' = PanicUnreachable /\ UNCHANGED <<frames, errors>>

\* the queue is exhausted: Value::Object(object)
Return(p) ==
    /\ Runs(p)
    /\ frames[p].pc = "drain"
    /\ NextOutput(frames[p].queue) = 0
    /\ frames' = SetFrame(p, [frames[p] EXCEPT !.pc = "done",
                                                !.ret = ObjectV(frames[p].object)])
    /\ UNCHANGED <<errors, panic>>

(***************************************************************************)
(* The ownership wrappers Box<T>, &T and Arc<T> (types/pointers.rs).  A    *)
(* method the wrapper implements forwards to the wrapped value; a method   *)
(* it does not implement is the default method of the trait, run on the    *)
(* wrapper.                                                                *)
(***************************************************************************)
Wrappers == {"Box", "Ref", "Arc"}

Methods ==
    {"name", "meta", "type_name", "resolve_into_type", "resolve_field",
     "resolve", "resolve_field_async", "resolve_async",
     "resolve_into_type_async"}

\* the wrapped types: the interface, an object type, and the type that
\* overrides no method
WrappedTypes == {"Character", "Human", "Plain"}

\* the arguments of a call: a field name, a type name, a selection set
CallArguments ==
    [field : {"id", "ghost"}, type_name : {"Character", "Human", "Droid"},
     selection_set : {"None", "Some"}]

Outcome(kind, what) == [kind |-> kind, what |-> what]

NoCall ==
    [wrapper |-> "", type |-> "", method |-> "",
     arg |-> [field |-> "", type_name |-> "", selection_set |-> ""],
     outer |-> Outcome("", ""), inner |-> Outcome("", "")]

\* resolve / resolve_async of a type with fields: the selection set is
\* resolved, and there must be one
ResolveCall(a) ==
    IF a.selection_set = "None" THEN Outcome("panic", PanicNoResolve)
    ELSE Outcome("value", "selection set")

\* the outcome of method m of the wrapped type T itself, on the instance R2D2
InnerCall(T, m, a) ==
    CASE m \in {"name", "type_name"} -> Outcome("value", T)
      [] m = "meta" -> Outcome("value", "meta")
      [] m \in {"resolve_field", "resolve_field_async"} ->
            IF T = "Plain" THEN Outcome("panic", PanicNoResolveField)
            ELSE IF field_by_name(T, a.field)
            THEN Outcome("value", a.field)
            ELSE Outcome("panic", PanicNoField)
      [] m \in {"resolve", "resolve_async"} -> ResolveCall(a)
      [] m \in {"resolve_into_type", "resolve_into_type_async"} ->
            LET r == resolve_into_type(T, R2D2, a.type_name)
            IN IF r = "some" THEN ResolveCall(a)
               ELSE IF r = "none" THEN Outcome("value", "Null")
               ELSE IF r = "err" THEN Outcome("error", "")
               ELSE Outcome("panic", r)

\* the methods the impls of the wrapper define
Forwards(w) ==
    CASE w = "Box" ->
            {"name", "meta", "type_name", "resolve_into_type", "resolve_field",
             "resolve", "resolve_async"}
      [] w = "Ref" ->
            {"name", "meta", "type_name", "resolve_into_type", "resolve_field",
             "resolve", "resolve_field_async", "resolve_async"}
      [] w = "Arc" ->
            {"name", "meta", "type_name", "resolve_into_type", "resolve_field",
             "resolve", "resolve_async"}

\* the outcome of method m called on the wrapper w of T
WrapperCall(w, T, m, a) ==
    IF m \in Forwards(w) THEN InnerCall(T, m, a)
    ELSE IF m = "resolve_field_async"
    THEN Outcome("panic", PanicNoResolveField)
    ELSE IF a.type_name = T
    THEN InnerCall(T, "resolve_async", a)
    ELSE Outcome("panic", PanicNoDowncast)

\* one call through a wrapper, and the same call on the wrapped value
Call ==
    /\ call = NoCall
    /\ \E w \in Wrappers, T \in WrappedTypes, m \in Methods,
          a \in CallArguments :
           call' = [wrapper |-> w, type |-> T, method |-> m, arg |-> a,
                    outer |-> WrapperCall(w, T, m, a),
                    inner |-> InnerCall(T, m, a)]
    /\ UNCHANGED <<frames, errors, panic>>

InitPointers ==
    /\ frames = <<>>
    /\ errors = <<>>
    /\ panic = NoPanic
    /\ call = NoCall

NextPointers == Call

SpecPointers == InitPointers /\ [][NextPointers]_vars

(***************************************************************************)
(* Value<S> as a tree (value/mod.rs), over the two scalar representations  *)
(* DefaultScalarValue (Int, Float, String, Boolean) and MyScalarValue      *)
(* (executor_tests/custom_scalar.rs: the same with Long).  A 64-bit        *)
(* integer is four 16-bit limbs, most significant first, in two's          *)
(* complement; a 32-bit integer is an integer; an f64 is its shortest      *)
(* decimal text.                                                           *)
(***************************************************************************)
Representations == {"DefaultScalarValue", "MyScalarValue"}

Limb == 65536

Zero64 == <<0, 0, 0, 0>>

\* a + b in 32 bits, wrapping: the two low limbs, sign-extended
Add32(a, b) ==
    LET s4 == a[4] + b[4]
        s3 == (a[3] + b[3] + s4 \div Limb) % Limb
    IN IF s3 >= 32768 THEN <<65535, 65535, s3, s4 % Limb>>
       ELSE <<0, 0, s3, s4 % Limb>>

\* a + b in 64 bits, wrapping
Add64(a, b) ==
    LET s4 == a[4] + b[4]
        s3 == a[3] + b[3] + s4 \div Limb
        s2 == a[2] + b[2] + s3 \div Limb
        s1 == a[1] + b[1] + s2 \div Limb
    IN <<s1 % Limb, s2 % Limb, s3 % Limb, s4 % Limb>>

\* a small natural number as i64
Small64(n) == <<0, 0, 0, n>>

\* ::std::i32::MAX as i64
I32Max == <<0, 0, 32767, 65535>>

I64Max == <<32767, 65535, 65535, 65535>>

\* the i64 fits an i32
FitsI32(a) ==
    \/ a[1] = 0 /\ a[2] = 0 /\ a[3] < 32768
    \/ a[1] = 65535 /\ a[2] = 65535 /\ a[3] >= 32768

\* a Rust value of one of the scalar kinds i32, f64, String, bool, i64
Typed(ty, i, f, s, b, l) ==
    [ty |-> ty, i |-> i, f |-> f, s |-> s, b |-> b, l |-> l]

I32(i) == Typed("i32", i, "", "", FALSE, Zero64)

F64(f) == Typed("f64", 0, f, "", FALSE, Zero64)

Str(s) == Typed("String", 0, "", s, FALSE, Zero64)

Bool(b) == Typed("bool", 0, "", "", b, Zero64)

I64(l) == Typed("i64", 0, "", "", FALSE, l)

ScalarKinds == {"i32", "f64", "String", "bool", "i64"}

\* the values the checks draw from
TypedValues ==
    {I32(0), I32(1), I32(123), I32(2147483647),
     F64("123.456"), F64("0.5"),
     Str(""), Str("foo"), Str("123"),
     Bool(TRUE), Bool(FALSE),
     I64(Small64(5)), I64(Add64(I32Max, Small64(1))), I64(I64Max)}

\* the variant of S that holds a T
VariantOf(ty) ==
    CASE ty = "i32" -> "Int"
      [] ty = "f64" -> "Float"
      [] ty = "String" -> "String"
      [] ty = "bool" -> "Boolean"
      [] ty = "i64" -> "Long"

KindOf(variant) ==
    CASE variant = "Int" -> "i32"
      [] variant = "Float" -> "f64"
      [] variant = "String" -> "String"
      [] variant = "Boolean" -> "bool"
      [] variant = "Long" -> "i64"

Variants(rep) ==
    IF rep = "MyScalarValue"
    THEN {"Int", "Long", "Float", "String", "Boolean"}
    ELSE {"Int", "Float", "String", "Boolean"}

\* From<T> for S: the variant of T around t
From(t) == [variant |-> VariantOf(t.ty), t |-> t]

NoVariant == [variant |-> "", t |-> Typed("", 0, "", "", FALSE, Zero64)]

\* the nodes of a Value<S>
Null == [tag |-> "Null", s |-> NoVariant, l |-> <<>>, o |-> <<>>]

Scalar(s) == [tag |-> "Scalar", s |-> s, l |-> <<>>, o |-> <<>>]

List(l) == [tag |-> "List", s |-> NoVariant, l |-> l, o |-> <<>>]

Object(o) == [tag |-> "Object", s |-> NoVariant, l |-> <<>>, o |-> o]

Some(x) == [some |-> TRUE, x |-> x]

\* Value::scalar
scalar(t) == Scalar(From(t))

\* an extraction that never finds the scalar
as_scalar_value_never(v, ty) == [some |-> FALSE]

\* Value::as_scalar_value::<T>, with Into<Option<&T>> for &S
as_scalar_value(v, ty) ==
    IF v.tag = "Scalar"
    THEN IF v.s.variant = VariantOf(ty) THEN Some(v.s.t) ELSE [some |-> FALSE]
    ELSE [some |-> FALSE]

\* Value::scalar(t), then as_scalar_value::<U> of it
ScalarRoundTrip ==
    /\ call.op = "none"
    /\ \E rep \in Representations, t \in TypedValues, u \in ScalarKinds :
           /\ VariantOf(t.ty) \in Variants(rep)
           /\ VariantOf(u) \in Variants(rep)
           /\ call' = [op |-> "scalar", rep |-> rep, t |-> t, u |-> u,
                       value |-> scalar(t),
                       back |-> as_scalar_value(scalar(t), u)]
    /\ UNCHANGED <<frames, errors, panic>>

\* the trees the checks draw from: leaves, lists and objects of leaves, and
\* lists and objects of one of those
LeafValues == {I32(1), F64("0.5"), Str("foo"), Bool(FALSE),
               I64(Add64(I32Max, Small64(1)))}

Leaves(rep) ==
    {Null} \cup {scalar(t) : t \in {x \in LeafValues :
                                        VariantOf(x.ty) \in Variants(rep)}}

ObjectKeys == {"a", "b"}

Depth1(rep) ==
    Leaves(rep)
    \cup {List(<<>>), Object(<<>>)}
    \cup {List(<<x>>) : x \in Leaves(rep)}
    \cup {List(<<x, y>>) : x, y \in Leaves(rep)}
    \cup {Object(<<[k |-> k, v |-> x]>>) : k \in ObjectKeys, x \in Leaves(rep)}
    \cup {Object(<<[k |-> k[1], v |-> x], [k |-> k[2], v |-> y]>>) :
              k \in {<<"a", "b">>, <<"b", "a">>}, x, y \in Leaves(rep)}

Depth2(rep) ==
    Depth1(rep)
    \cup {List(<<x>>) : x \in Depth1(rep) \ Leaves(rep)}
    \cup {Object(<<[k |-> "a", v |-> x]>>) : x \in Depth1(rep) \ Leaves(rep)}

\* i as f64, as text, for the 64-bit integers of the trees
AsFloat64(l) ==
    IF l = Add64(I32Max, Small64(1)) THEN F64("2147483648")
    ELSE IF l = Small64(5) THEN F64("5")
    ELSE F64("9223372036854775807")

\* ScalarValue::into_another: the same variant where the target has it, and
\* a Long as the Float of the same number where it has not
into_another(s, into) ==
    IF s.variant \in Variants(into) THEN s
    ELSE From(AsFloat64(s.t.l))

\* FromIterator for Object: add_field of every pair in order
RECURSIVE collect(_, _)
collect(pairs, n) ==
    IF n = 0 THEN <<>>
    ELSE add_field(collect(pairs, n - 1), pairs[n].k, pairs[n].v)

\* the structural walk of map_scalar_value
RECURSIVE map_walk(_, _)
map_walk(v, into) ==
    CASE v.tag = "Null" -> Null
      [] v.tag = "Scalar" -> Scalar(into_another(v.s, into))
      [] v.tag = "List" ->
            List([n \in 1..Len(v.l) |-> map_walk(v.l[n], into)])
      [] v.tag = "Object" ->
            Object(collect([n \in 1..Len(v.o) |->
                               [k |-> v.o[n].k,
                                v |-> map_walk(v.o[n].v, into)]],
                           Len(v.o)))

\* a conversion that stops at the first level
map_scalar_value_shallow(v, from, into) ==
    IF into = from THEN v
    ELSE IF v.tag = "Scalar" THEN Scalar(into_another(v.s, into))
    ELSE v

\* Value::map_scalar_value::<Into>
map_scalar_value(v, from, into) ==
    IF into = from THEN v ELSE map_walk(v, into)

MapScalarValue ==
    /\ call.op = "none"
    /\ \E from \in Representations, into \in Representations :
       \E v \in Depth2(from) :
           call' = [op |-> "map_scalar_value", from |-> from, into |-> into,
                    input |-> v, output |-> map_scalar_value(v, from, into)]
    /\ UNCHANGED <<frames, errors, panic>>

\* the decimal digits of a natural number, as text
Digit(d) ==
    CASE d = 0 -> "0" [] d = 1 -> "1" [] d = 2 -> "2" [] d = 3 -> "3"
      [] d = 4 -> "4" [] d = 5 -> "5" [] d = 6 -> "6" [] d = 7 -> "7"
      [] d = 8 -> "8" [] d = 9 -> "9"

RECURSIVE Decimal(_)
Decimal(n) ==
    IF n < 10 THEN Digit(n) ELSE Decimal(n \div 10) \o Digit(n % 10)

\* a non-negative i64 divided by ten: the quotient and the remainder
DivMod10(a) ==
    LET q1 == a[1] \div 10
        r1 == a[1] % 10
        q2 == (r1 * Limb + a[2]) \div 10
        r2 == (r1 * Limb + a[2]) % 10
        q3 == (r2 * Limb + a[3]) \div 10
        r3 == (r2 * Limb + a[3]) % 10
        q4 == (r3 * Limb + a[4]) \div 10
        r4 == (r3 * Limb + a[4]) % 10
    IN [q |-> <<q1, q2, q3, q4>>, r |-> r4]

\* the decimal digits of a non-negative i64, most significant first
RECURSIVE Digits64(_)
Digits64(a) ==
    IF a[1] = 0 /\ a[2] = 0 /\ a[3] = 0 /\ a[4] < 10 THEN <<a[4]>>
    ELSE Append(Digits64(DivMod10(a).q), DivMod10(a).r)

RECURSIVE Concat(_)
Concat(ds) ==
    IF ds = <<>> THEN "" ELSE Digit(Head(ds)) \o Concat(Tail(ds))

\* ScalarValue::as_string
as_string(s) ==
    IF s.variant = "String" THEN Some(s.t.s) ELSE [some |-> FALSE]

\* Display of a scalar that is not a string
ScalarDisplay(s) ==
    CASE s.variant = "Int" -> Decimal(s.t.i)
      [] s.variant = "Float" -> s.t.f
      [] s.variant = "Boolean" -> IF s.t.b THEN "true" ELSE "false"
      [] s.variant = "Long" -> Concat(Digits64(s.t.l))
      [] OTHER -> s.t.s

\* a separator after every element
SeparatorAlways(idx, len) == TRUE

\* `if idx < list.len() - 1` and `if idx < obj.field_count() - 1`; idx
\* counts from zero and len is at least 1 where the test is made
SeparatorFollows(idx, len) == idx < len - 1

\* impl Display for Value: fmt, with the two loops over idx
RECURSIVE fmt(_)
RECURSIVE fmt_list(_, _, _)
RECURSIVE fmt_object(_, _, _)
fmt_list(list, idx, f) ==
    IF idx >= Len(list) THEN f
    ELSE fmt_list(list, idx + 1,
                  f \o fmt(list[idx + 1])
                    \o (IF SeparatorFollows(idx, Len(list)) THEN ", " ELSE ""))

fmt_object(obj, idx, f) ==
    IF idx >= Len(obj) THEN f
    ELSE fmt_object(obj, idx + 1,
                    f \o "\"" \o obj[idx + 1].k \o "\": " \o fmt(obj[idx + 1].v)
                      \o (IF SeparatorFollows(idx, Len(obj)) THEN ", " ELSE ""))

fmt(v) ==
    CASE v.tag = "Null" -> "null"
      [] v.tag = "Scalar" ->
            IF as_string(v.s).some THEN "\"" \o as_string(v.s).x \o "\""
            ELSE ScalarDisplay(v.s)
      [] v.tag = "List" -> fmt_list(v.l, 0, "[") \o "]"
      [] v.tag = "Object" -> fmt_object(v.o, 0, "{") \o "}"

\* format!("{}", value)
Display ==
    /\ call.op = "none"
    /\ \E rep \in Representations : \E v \in Depth2(rep) :
           call' = [op |-> "display", rep |-> rep, input |-> v,
                    output |-> fmt(v)]
    /\ UNCHANGED <<frames, errors, panic>>

\* acc * 10 + d as i64: checked_mul and checked_add, None on overflow
MulAdd10(a, d) ==
    LET s4 == a[4] * 10 + d
        s3 == a[3] * 10 + s4 \div Limb
        s2 == a[2] * 10 + s3 \div Limb
        s1 == a[1] * 10 + s2 \div Limb
    IN IF s1 >= 32768 THEN [some |-> FALSE]
       ELSE Some(<<s1, s2 % Limb, s3 % Limb, s4 % Limb>>)

\* str::parse::<i64> of the digits of an integer literal
RECURSIVE parse_i64(_, _)
parse_i64(digits, n) ==
    IF n = 0 THEN Some(Zero64)
    ELSE LET acc == parse_i64(digits, n - 1)
         IN IF acc.some THEN MulAdd10(acc.x, digits[n]) ELSE acc

\* InputValue<MyScalarValue>: a scalar, or a variable reference
InputScalar(s) == [t |-> "Scalar", s |-> s, name |-> ""]

InputVariable(name) == [t |-> "Variable", s |-> NoVariant, name |-> name]

\* from_str of graphql_scalar!(i64 as "Long"): an Int token parsed as i64
from_str(digits) ==
    LET r == parse_i64(digits, Len(digits))
    IN IF r.some THEN Some(From(I64(r.x))) ELSE [some |-> FALSE]

\* a from_input_value that accepts Int only
from_input_value_int(v) ==
    IF v.t = "Scalar" /\ v.s.variant = "Int"
    THEN Some(Small64(v.s.t.i)) ELSE [some |-> FALSE]

\* from_input_value of graphql_scalar!(i64 as "Long")
from_input_value(v) ==
    IF v.t = "Scalar" /\ v.s.variant = "Long"
    THEN Some(v.s.t.l) ELSE [some |-> FALSE]

PanicUnwrapNone == "called Option::unwrap() on a None value"

\* TestType::resolve_field; args holds the value of longArg, if any
TestType_resolve_field(field_name, args) ==
    CASE field_name = "longField" ->
            [ok |-> TRUE, panic |-> NoPanic,
             value |-> Scalar(From(I64(Add64(I32Max, Small64(1)))))]
      [] field_name = "longWithArg" ->
            IF args.some /\ from_input_value(args.x).some
            THEN [ok |-> TRUE, panic |-> NoPanic,
                  value |-> Scalar(From(I64(from_input_value(args.x).x)))]
            ELSE [ok |-> FALSE, panic |-> PanicUnwrapNone, value |-> Null]
      [] OTHER -> [ok |-> FALSE, panic |-> PanicUnreachable, value |-> Null]

\* ::execute of a query with one field selection: the result and the errors
execute(field_name, args) ==
    LET r == TestType_resolve_field(field_name, args)
    IN IF r.ok
       THEN [result |-> Object(add_field(<<>>, field_name, r.value)),
             errs |-> <<>>, panic |-> NoPanic]
       ELSE [result |-> Null, errs |-> <<>>, panic |-> r.panic]

\* the 64-bit integers given as longArg
LongInputs ==
    {Small64(5), I32Max, Add64(I32Max, Small64(1)), Add64(I32Max, Small64(3)),
     Add64(I32Max, Small64(42)), <<0, 1, 0, 0>>, <<0, 65535, 65535, 65535>>,
     <<1, 0, 0, 0>>, <<32767, 0, 0, 1>>, I64Max}

\* { longField }, whatever the variables
QueryingLong ==
    /\ call.op = "none"
    /\ \E n \in LongInputs :
           call' = [op |-> "querying_long", vars |-> InputScalar(From(I64(n))),
                    out |-> execute("longField", [some |-> FALSE])]
    /\ UNCHANGED <<frames, errors, panic>>

\* { longWithArg(longArg: <n>) } with n written in the query text, and
\* query q($test: Long!) { longWithArg(longArg: $test) } with $test bound to
\* a scalar of the representation
QueryingLongArg ==
    /\ call.op = "none"
    /\ \E n \in LongInputs, path \in {"literal", "variable", "variable Int"} :
           LET text == Digits64(n)
               lit  == from_str(text)
               bound == IF path = "variable" THEN InputScalar(From(I64(n)))
                        ELSE InputScalar(From(I32(n[4])))
               arg  == IF path = "literal"
                       THEN IF lit.some THEN Some(InputScalar(lit.x))
                            ELSE [some |-> FALSE]
                       ELSE Some(bound)
           IN /\ path = "variable Int" => n[1] = 0 /\ n[2] = 0 /\ n[3] = 0
              /\ call' = [op |-> "querying_long_arg", path |-> path, n |-> n,
                          text |-> text,
                          out |-> execute("longWithArg", arg)]
    /\ UNCHANGED <<frames, errors, panic>>

(***************************************************************************)
(* Expansion of #[graphql_union] (juniper_codegen graphql_union/attr.rs):  *)
(* the variants are collected from the trait's methods and from the        *)
(* custom resolvers of the attribute; errors are emitted into the scope    *)
(* and abort_if_dirty stops the expansion if any was.                      *)
(***************************************************************************)
VariantTypes == {"A", "B", "C"}

MaxMethods == 3

ErrConflict == "trait method conflicts with the custom resolver"

ErrEmpty == "expects at least one union variant"

ErrSameType == "each union variant must have a different type"

\* the trait's methods, each by the variant type it returns
MethodLists ==
    UNION {[1..n -> VariantTypes] : n \in 0..MaxMethods}

\* parse_variant_from_trait_method of every method: the variants, and the
\* errors for the methods whose type has a custom resolver
MethodErrors(methods, custom) ==
    IF \E n \in DOMAIN methods : methods[n] \in custom
    THEN {ErrConflict} ELSE {}

\* the custom resolvers: the resolver of a variant already there is
\* replaced, any other type is pushed; the map is walked in some order
RECURSIVE AddCustom(_, _)
AddCustom(variants, custom) ==
    IF custom = {} THEN variants
    ELSE LET ty == CHOOSE t \in custom : TRUE
         IN AddCustom(IF \E n \in DOMAIN variants : variants[n] = ty
                      THEN variants ELSE Append(variants, ty),
                      custom \ {ty})

\* Vec::dedup: of equal neighbours the first is kept
RECURSIVE dedup(_)
dedup(types) ==
    IF Len(types) <= 1 THEN types
    ELSE LET rest == dedup(Tail(types))
         IN IF Head(types) = Head(rest) THEN rest ELSE <<Head(types)>> \o rest

all_variants_different(variants) == Len(dedup(variants)) = Len(variants)

\* expand: the errors emitted, and whether code was generated
expand(methods, custom) ==
    LET early == MethodErrors(methods, custom)
        variants == AddCustom(methods, custom)
        late == (IF variants = <<>> THEN {ErrEmpty} ELSE {})
                \cup (IF ~all_variants_different(variants)
                      THEN {ErrSameType} ELSE {})
    IN IF early # {}
       THEN [accepted |-> FALSE, errs |-> early, variants |-> methods]
       ELSE [accepted |-> late = {}, errs |-> late, variants |-> variants]

ExpandUnion ==
    /\ call.op = "none"
    /\ \E methods \in MethodLists, custom \in SUBSET VariantTypes :
           call' = [op |-> "expand", methods |-> methods, custom |-> custom,
                    out |-> expand(methods, custom)]
    /\ UNCHANGED <<frames, errors, panic>>

(***************************************************************************)
(* The trait's methods as written: parse_variant_from_trait_method turns   *)
(* each into a variant or into errors.  A method is its attributes         *)
(* (ignore, with), its receiver, its further arguments, its return type,   *)
(* its asyncness and the type T its return type names.                     *)
(***************************************************************************)
ErrWith == "cannot use the with attribute on a trait method"

ErrOutput == "trait method return type can be Option<&VariantType> only"

ErrInput == "trait method can accept &self and optionally &Context only"

ErrAsync == "async union variants resolvers are not supported yet"

Receivers == {"&self", "&mut self", "self", "self: &Self", ""}

ArgumentTypes == {"&Context", "&mut Context", "Context"}

ReturnTypes == {"Option<&T>", "Option<&mut T>", "Option<T>", "&Option<T>", ""}

TraitMethod(ty, ignore, with, receiver, args, ret, async) ==
    [ty |-> ty, ignore |-> ignore, with |-> with, receiver |-> receiver,
     args |-> args, ret |-> ret, async |-> async]

\* fn(&self) -> Option<&T> and fn(&self, &Context) -> Option<&T>
Plain(ty) == TraitMethod(ty, FALSE, FALSE, "&self", <<>>, "Option<&T>", FALSE)

WithContext(ty) ==
    TraitMethod(ty, FALSE, FALSE, "&self", <<"&Context">>, "Option<&T>", FALSE)

\* sig.inputs: the receiver, if written, and the further arguments
Inputs(m) == (IF m.receiver = "" THEN <<>> ELSE <<m.receiver>>) \o m.args

\* Ok(the type) only for Option of a shared reference
parse_trait_method_output_type(m) ==
    IF m.ret = "Option<&T>" THEN [ok |-> TRUE, ty |-> m.ty]
    ELSE [ok |-> FALSE, ty |-> ""]

\* any receiver taken for &self
parse_trait_method_input_args_unchecked(m) ==
    IF Len(Inputs(m)) > 2 THEN [ok |-> FALSE, ctx |-> FALSE]
    ELSE IF Len(Inputs(m)) < 2 THEN [ok |-> TRUE, ctx |-> FALSE]
    ELSE IF Inputs(m)[2] = "&Context" THEN [ok |-> TRUE, ctx |-> TRUE]
    ELSE [ok |-> FALSE, ctx |-> FALSE]

\* Ok(whether the method accepts the context)
parse_trait_method_input_args(m) ==
    IF m.receiver # "&self" THEN [ok |-> FALSE, ctx |-> FALSE]
    ELSE IF Len(Inputs(m)) > 2 THEN [ok |-> FALSE, ctx |-> FALSE]
    ELSE IF Len(Inputs(m)) < 2 THEN [ok |-> TRUE, ctx |-> FALSE]
    ELSE IF Inputs(m)[2] = "&Context" THEN [ok |-> TRUE, ctx |-> TRUE]
    ELSE [ok |-> FALSE, ctx |-> FALSE]

\* the variant of the method (a sequence of none or one type) and the errors
\* emitted on the way
parse_variant_from_trait_method(m, custom) ==
    LET with == IF m.with THEN {ErrWith} ELSE {}
        out == parse_trait_method_output_type(m)
        in == parse_trait_method_input_args(m)
    IN IF m.ignore THEN [variant |-> <<>>, errs |-> with]
       ELSE IF ~out.ok THEN [variant |-> <<>>, errs |-> with \cup {ErrOutput}]
       ELSE IF ~in.ok THEN [variant |-> <<>>, errs |-> with \cup {ErrInput}]
       ELSE IF m.async THEN [variant |-> <<>>, errs |-> with \cup {ErrAsync}]
       ELSE [variant |-> <<out.ty>>,
             errs |-> with \cup
                      (IF out.ty \in custom THEN {ErrConflict} ELSE {})]

RECURSIVE Flatten(_)
Flatten(seqs) ==
    IF seqs = <<>> THEN <<>> ELSE Head(seqs) \o Flatten(Tail(seqs))

\* expand on the trait as written: the errors carry the method they were
\* emitted at (0: the trait itself); abort_if_dirty after the methods
expand_trait(items, custom) ==
    LET parsed == [n \in DOMAIN items |->
                      parse_variant_from_trait_method(items[n], custom)]
        variants == Flatten([n \in DOMAIN items |-> parsed[n].variant])
        early == UNION {{[at |-> n, msg |-> e] : e \in parsed[n].errs} :
                        n \in DOMAIN items}
        out == expand(variants, custom)
    IN IF early # {}
       THEN [accepted |-> FALSE, errs |-> early, variants |-> variants]
       ELSE [accepted |-> out.accepted,
             errs |-> {[at |-> 0, msg |-> e] : e \in out.errs},
             variants |-> out.variants]

\* one method with any signature, alone or before a well-formed one
SignatureItems ==
    LET any == {TraitMethod(ty, ig, FALSE, rc, args, ret, as) :
                   ty \in {"A"}, ig \in BOOLEAN, rc \in Receivers,
                   args \in UNION {[1..n -> ArgumentTypes] : n \in 0..2},
                   ret \in ReturnTypes, as \in BOOLEAN}
    IN {<<m>> : m \in any} \cup {<<m, Plain("B")>> : m \in any}

\* well-formed methods, some of them ignored or carrying a resolver attribute
AttributeItems ==
    LET good == {TraitMethod(ty, ig, with, "&self", <<>>, "Option<&T>", FALSE) :
                    ty \in VariantTypes, ig \in BOOLEAN, with \in BOOLEAN}
                \cup {WithContext(ty) : ty \in VariantTypes}
    IN UNION {[1..n -> good] : n \in 0..MaxMethods}

ExpandTrait ==
    /\ call.op = "none"
    /\ \E items \in SignatureItems \cup AttributeItems,
          custom \in SUBSET VariantTypes :
           call' = [op |-> "trait", items |-> items, custom |-> custom,
                    out |-> expand_trait(items, custom)]
    /\ UNCHANGED <<frames, errors, panic>>

(***************************************************************************)
(* Deserialize for MyScalarValue (custom_scalar.rs 22-99): the visitor's   *)
(* methods for integers.  A u32 and a u64 are four 16-bit limbs, unsigned; *)
(* an i32 is an integer of the model, an i64 four limbs in two's           *)
(* complement.                                                             *)
(***************************************************************************)
\* a <= b for unsigned numbers of four limbs
RECURSIVE LeqU(_, _)
LeqU(a, b) ==
    IF a = <<>> THEN TRUE
    ELSE IF Head(a) # Head(b) THEN Head(a) < Head(b)
    ELSE LeqU(Tail(a), Tail(b))

\* i32::max_value() as u32 and i64::max_value() as u64
I32MaxAsU32 == <<0, 0, 32767, 65535>>

I64MaxAsU64 == <<32767, 65535, 65535, 65535>>

\* value as i32 of a u32: the same 32 bits, read in two's complement
U32AsI32(value) ==
    IF value[3] >= 32768 THEN (value[3] - Limb) * Limb + value[4]
    ELSE value[3] * Limb + value[4]

\* value as u64 of a u32, value as i64 of a u64: the same bits
U32AsU64(value) == <<0, 0, value[3], value[4]>>

U64AsI64(value) == value

\* value as f64 of a u64 above i64::MAX: the nearest multiple of 2^11, ties
\* to the even one, written in decimal
U64AsF64(value) ==
    LET r == value[4] % 2048
        base == <<value[1], value[2], value[3], value[4] - r>>
        up == r > 1024 \/ (r = 1024 /\ (value[4] \div 2048) % 2 = 1)
        rounded == IF up THEN Add64(base, <<0, 0, 0, 2048>>) ELSE base
    IN IF up /\ rounded = Zero64 THEN "18446744073709551616"
       ELSE Concat(Digits64(rounded))

visit_i32(value) == From(I32(value))

visit_i64(value) == From(I64(value))

visit_u64(value) ==
    IF LeqU(value, I64MaxAsU64) THEN visit_i64(U64AsI64(value))
    ELSE From(F64(U64AsF64(value)))

\* every u32 cast to i32
visit_u32_cast(value) == visit_i32(U32AsI32(value))

visit_u32(value) ==
    IF LeqU(value, I32MaxAsU32) THEN visit_i32(U32AsI32(value))
    ELSE visit_u64(U32AsU64(value))

LimbValues == {0, 1, 32767, 32768, 65535}

U32Values == {<<0, 0, a, b>> : a, b \in LimbValues}

U64Values == {<<a, b, c, d>> : a, b, c, d \in LimbValues}

\* the deserializer hands the visitor an unsigned integer
Deserialize ==
    /\ call.op = "none"
    /\ \/ \E value \in U32Values :
              call' = [op |-> "visit", ty |-> "u32", value |-> value,
                       out |-> visit_u32(value)]
       \/ \E value \in U64Values :
              call' = [op |-> "visit", ty |-> "u64", value |-> value,
                       out |-> visit_u64(value)]
    /\ UNCHANGED <<frames, errors, panic>>

(***************************************************************************)
(* The Long scalar's input side as a whole: every kind of scalar token for *)
(* from_str and every kind of input value for from_input_value.            *)
(***************************************************************************)
ErrUnexpectedToken == "ParseError::UnexpectedToken"

\* ScalarToken::Int, ::Float and ::String with their text: a sign and digits
ScalarToken(kind, neg, digits) == [kind |-> kind, neg |-> neg, digits |-> digits]

\* the two's complement of an i64
Negate(a) ==
    Add64(<<65535 - a[1], 65535 - a[2], 65535 - a[3], 65535 - a[4]>>,
          Small64(1))

\* the digits after a minus sign: str::parse accumulates acc * 10 - d with
\* checked_mul and checked_sub; kept here as the magnitude, at most 2^63
MulSub10(a, d) ==
    LET s4 == a[4] * 10 + d
        s3 == a[3] * 10 + s4 \div Limb
        s2 == a[2] * 10 + s3 \div Limb
        s1 == a[1] * 10 + s2 \div Limb
    IN IF s1 > 32768 \/ (s1 = 32768 /\ <<s2 % Limb, s3 % Limb, s4 % Limb>> # <<0, 0, 0>>)
       THEN [some |-> FALSE]
       ELSE Some(<<s1, s2 % Limb, s3 % Limb, s4 % Limb>>)

RECURSIVE parse_negative(_, _)
parse_negative(digits, n) ==
    IF n = 0 THEN Some(Zero64)
    ELSE LET acc == parse_negative(digits, n - 1)
         IN IF acc.some THEN MulSub10(acc.x, digits[n]) ELSE acc

\* a from_str that hands back Int where the number fits 32 bits
Long_from_str_narrow(token) ==
    LET r == parse_i64(token.digits, Len(token.digits))
    IN IF token.kind = "Int" /\ ~token.neg /\ r.some
       THEN [ok |-> TRUE, err |-> "",
             s |-> IF FitsI32(r.x) THEN From(I32(r.x[3] * Limb + r.x[4]))
                   ELSE From(I64(r.x))]
       ELSE [ok |-> FALSE, s |-> NoVariant, err |-> ErrUnexpectedToken]

\* from_str of graphql_scalar!(i64 as "Long") on any scalar token
Long_from_str(token) ==
    IF token.kind = "Int"
    THEN IF token.neg
         THEN LET r == parse_negative(token.digits, Len(token.digits))
              IN IF r.some
                 THEN [ok |-> TRUE, s |-> From(I64(Negate(r.x))), err |-> ""]
                 ELSE [ok |-> FALSE, s |-> NoVariant, err |-> ErrUnexpectedToken]
         ELSE LET r == from_str(token.digits)
              IN IF r.some THEN [ok |-> TRUE, s |-> r.x, err |-> ""]
                 ELSE [ok |-> FALSE, s |-> NoVariant, err |-> ErrUnexpectedToken]
    ELSE [ok |-> FALSE, s |-> NoVariant, err |-> ErrUnexpectedToken]

\* the input values that are no scalar
InputOther(t) == [t |-> t, s |-> NoVariant, name |-> ""]

InputValues ==
    {InputScalar(From(t)) : t \in TypedValues}
    \cup {InputVariable("test")}
    \cup {InputOther(t) : t \in {"Null", "Enum", "List", "Object"}}

\* the text of the tokens: numbers around the bounds of i32 and of i64
TokenDigits ==
    {Digits64(n) : n \in LongInputs}
    \cup {<<0>>, <<0, 0, 7>>,
          <<9, 2, 2, 3, 3, 7, 2, 0, 3, 6, 8, 5, 4, 7, 7, 5, 8, 0, 8>>,
          <<9, 2, 2, 3, 3, 7, 2, 0, 3, 6, 8, 5, 4, 7, 7, 5, 8, 0, 9>>,
          <<1, 8, 4, 4, 6, 7, 4, 4, 0, 7, 3, 7, 0, 9, 5, 5, 1, 6, 1, 6>>,
          <<9, 9, 9, 9, 9, 9, 9, 9, 9, 9, 9, 9, 9, 9, 9, 9, 9, 9, 9, 9, 9>>}

ScalarTokens ==
    {ScalarToken(kind, neg, digits) :
        kind \in {"Int", "Float", "String"}, neg \in BOOLEAN,
        digits \in TokenDigits}

\* the Long scalar given a token of the query text, or an input value
LongInput ==
    /\ call.op = "none"
    /\ \/ \E token \in ScalarTokens :
              call' = [op |-> "from_str", token |-> token,
                       out |-> Long_from_str(token)]
       \/ \E v \in InputValues :
              call' = [op |-> "from_input_value", v |-> v,
                       out |-> from_input_value(v)]
    /\ UNCHANGED <<frames, errors, panic>>

(***************************************************************************)
(* graphql_scalar!(Uuid) (integrations/uuid.rs).  A Uuid is its 32 hex     *)
(* digits as numbers 0..15, a text is a sequence of characters.            *)
(***************************************************************************)
HexChars ==
    <<"0", "1", "2", "3", "4", "5", "6", "7", "8", "9",
      "a", "b", "c", "d", "e", "f">>

UpperHexChars ==
    <<"0", "1", "2", "3", "4", "5", "6", "7", "8", "9",
      "A", "B", "C", "D", "E", "F">>

IsHex(c) == \E n \in 1..16 : HexChars[n] = c \/ UpperHexChars[n] = c

HexValue(c) == (CHOOSE n \in 1..16 : HexChars[n] = c \/ UpperHexChars[n] = c) - 1

\* the places of the hyphens in the 36 characters of the hyphenated form
Hyphens == {9, 14, 19, 24}

\* Uuid::to_string: lower-case hex digits in groups of 8-4-4-4-12
RECURSIVE Hyphenated(_, _)
Hyphenated(u, at) ==
    IF u = <<>> THEN <<>>
    ELSE IF at \in Hyphens THEN <<"-">> \o Hyphenated(u, at + 1)
    ELSE <<HexChars[Head(u) + 1]>> \o Hyphenated(Tail(u), at + 1)

Uuid_to_string(u) == Hyphenated(u, 1)

\* the hex digits of a text in simple form, none if another character is met
Simple(text) ==
    IF Len(text) = 32 /\ \A n \in 1..32 : IsHex(text[n])
    THEN Some([n \in 1..32 |-> HexValue(text[n])])
    ELSE [some |-> FALSE]

\* the text without its characters at the hyphens' places
SelectSeqAt(text, drop) ==
    LET keep == {n \in DOMAIN text : n \notin drop}
        F[k \in 0..Len(text)] ==
            IF k = 0 THEN <<>>
            ELSE IF k \in keep THEN Append(F[k - 1], text[k]) ELSE F[k - 1]
    IN F[Len(text)]

\* Uuid::parse_str(..).ok(): the simple form, the hyphenated form, and the
\* hyphenated form after urn:uuid:
Uuid_parse_str(text) ==
    IF Len(text) = 32 THEN Simple(text)
    ELSE IF Len(text) = 36
    THEN IF \A n \in Hyphens : text[n] = "-"
         THEN Simple(SelectSeqAt(text, Hyphens)) ELSE [some |-> FALSE]
    ELSE IF Len(text) = 45 /\ SubSeq(text, 1, 9) = <<"u", "r", "n", ":", "u", "u", "i", "d", ":">>
    THEN IF \A n \in Hyphens : text[n + 9] = "-"
         THEN Simple(SelectSeqAt(SubSeq(text, 10, 45), Hyphens))
         ELSE [some |-> FALSE]
    ELSE [some |-> FALSE]

\* a Value or InputValue of the Uuid scalar's checks: a string scalar with its
\* text, or anything else
Texted(t, variant, text) == [t |-> t, variant |-> variant, text |-> text]

Value_string(text) == Texted("Scalar", "String", text)

\* resolve
Uuid_resolve(u) == Value_string(Uuid_to_string(u))

\* InputValue::as_string_value
Input_as_string_value(v) ==
    IF v.t = "Scalar" /\ v.variant = "String" THEN Some(v.text)
    ELSE [some |-> FALSE]

\* a from_input_value that takes the text for simple hex digits only
Uuid_from_input_value_simple(v) ==
    LET s == Input_as_string_value(v)
    IN IF s.some THEN Simple(s.x) ELSE [some |-> FALSE]

\* from_input_value
Uuid_from_input_value(v) ==
    LET s == Input_as_string_value(v)
    IN IF s.some THEN Uuid_parse_str(s.x) ELSE [some |-> FALSE]

\* from_str: the text of a string token as the String of the representation
Uuid_from_str(token) ==
    IF token.kind = "String"
    THEN [ok |-> TRUE, s |-> Value_string(token.text), err |-> ""]
    ELSE [ok |-> FALSE, s |-> Texted("", "", <<>>), err |-> ErrUnexpectedToken]

\* 123e4567-e89b-12d3-a456-426655440000 of the test, the nil Uuid, the
\* greatest one, and one with every hex digit
Uuids ==
    {<<1, 2, 3, 14, 4, 5, 6, 7, 14, 8, 9, 11, 1, 2, 13, 3,
       10, 4, 5, 6, 4, 2, 6, 6, 5, 5, 4, 4, 0, 0, 0, 0>>,
     [n \in 1..32 |-> 0], [n \in 1..32 |-> 15],
     [n \in 1..32 |-> (n * 7) % 16]}

Upper(text) ==
    [n \in DOMAIN text |->
        IF IsHex(text[n]) THEN UpperHexChars[HexValue(text[n]) + 1] ELSE text[n]]

\* texts that are a Uuid in some form, and texts that are none
Texts ==
    LET forms(u) == {Uuid_to_string(u), Upper(Uuid_to_string(u)),
                     SelectSeqAt(Uuid_to_string(u), Hyphens),
                     <<"u", "r", "n", ":", "u", "u", "i", "d", ":">>
                         \o Uuid_to_string(u)}
        broken(u) == {Tail(Uuid_to_string(u)),
                      [Uuid_to_string(u) EXCEPT ![9] = "0"],
                      [Uuid_to_string(u) EXCEPT ![1] = "g"],
                      [Uuid_to_string(u) EXCEPT ![36] = "-"],
                      Uuid_to_string(u) \o <<"0">>,
                      <<"U", "R", "N", ":", "u", "u", "i", "d", ":">>
                          \o Uuid_to_string(u)}
    IN UNION {forms(u) \cup broken(u) : u \in Uuids}
       \cup {<<>>, <<"f", "o", "o">>}

UuidInputs ==
    {Value_string(text) : text \in Texts}
    \cup {Texted("Scalar", variant, text) :
             variant \in {"Int", "Float", "Boolean"},
             text \in {Uuid_to_string(u) : u \in Uuids}}
    \cup {Texted(t, "", <<>>) : t \in {"Null", "Enum", "Variable", "List", "Object"}}

UuidTokens ==
    {[kind |-> kind, text |-> text] :
        kind \in {"Int", "Float", "String"}, text \in Texts}

\* the Uuid scalar: resolve and back, any input value, any token
UuidScalar ==
    /\ call.op = "none"
    /\ \/ \E u \in Uuids :
              call' = [op |-> "uuid_resolve", u |-> u, value |-> Uuid_resolve(u),
                       out |-> Uuid_from_input_value(Uuid_resolve(u))]
       \/ \E v \in UuidInputs :
              call' = [op |-> "uuid_from_input_value", v |-> v,
                       out |-> Uuid_from_input_value(v)]
       \/ \E token \in UuidTokens :
              call' = [op |-> "uuid_from_str", token |-> token,
                       out |-> Uuid_from_str(token)]
    /\ UNCHANGED <<frames, errors, panic>>

(***************************************************************************)
(* The typed views of a Value (value/mod.rs 88-162).  A view that borrows  *)
(* returns what it hands out and the value it was called on, as it is      *)
(* after the call.                                                         *)
(***************************************************************************)
None == [some |-> FALSE]

Borrowed(ret, self) == [ret |-> ret, self |-> self]

is_null(v) == Borrowed(v.tag = "Null", v)

as_object_value(v) ==
    Borrowed(IF v.tag = "Object" THEN Some(v.o) ELSE None, v)

\* the mutable borrow hands out the object in place and writes nothing
as_mut_object_value(v) ==
    Borrowed(IF v.tag = "Object" THEN Some(v.o) ELSE None, v)

\* the value is consumed
into_object(v) == IF v.tag = "Object" THEN Some(v.o) ELSE None

\* a view that takes the items of whatever it is called on
as_list_value_any(v) == Borrowed(Some(v.l), v)

as_list_value(v) ==
    Borrowed(IF v.tag = "List" THEN Some(v.l) ELSE None, v)

as_scalar(v) ==
    Borrowed(IF v.tag = "Scalar" THEN Some(v.s) ELSE None, v)

TypedViews ==
    /\ call.op = "none"
    /\ \E v \in Depth2("MyScalarValue") :
           call' = [op |-> "views", v |-> v,
                    is_null |-> is_null(v),
                    as_object_value |-> as_object_value(v),
                    as_mut_object_value |-> as_mut_object_value(v),
                    into_object |-> into_object(v),
                    as_list_value |-> as_list_value(v),
                    as_scalar |-> as_scalar(v)]
    /\ UNCHANGED <<frames, errors, panic>>

InitValue ==
    /\ frames = <<>>
    /\ errors = <<>>
    /\ panic = NoPanic
    /\ call = [op |-> "none"]

NextValue ==
    \/ ScalarRoundTrip
    \/ MapScalarValue
    \/ Display
    \/ QueryingLong
    \/ QueryingLongArg
    \/ ExpandUnion
    \/ ExpandTrait
    \/ Deserialize
    \/ LongInput
    \/ UuidScalar
    \/ TypedViews

SpecValue == InitValue /\ [][NextValue]_vars

(***************************************************************************)
(* The documents: every root selection set of at most MaxSel selections    *)
(* drawn from the atoms below in which at most MaxWidth futures can be in  *)
(* flight at once.  The selection at index k starts at position k, a       *)
(* selection nested in it at 10k + j, 100k + j.                            *)
(***************************************************************************)
Atoms == {"name", "id", "typename", "spread", "inline", "onHuman", "chain"}

Atom(a, k) ==
    CASE a = "name"     -> Field("", "name", k, <<>>)
      [] a = "id"       -> Field("", "id", k, <<>>)
      [] a = "typename" -> Field("", "__typename", k, <<>>)
      [] a = "spread"   -> FragmentSpread("F", k)
      [] a = "inline"   ->
            InlineFragment("", k, <<Field("n", "name", 10 * k + 1, <<>>),
                                    Field("", "id", 10 * k + 2, <<>>)>>)
      [] a = "onHuman"  ->
            InlineFragment("Human", k, <<Field("", "id", 10 * k + 1, <<>>)>>)
      [] a = "chain"    ->
            Field("", "friend", k,
                  <<Field("", "best", 10 * k + 1,
                          <<Field("", "id", 100 * k + 1, <<>>)>>)>>)

\* the futures an atom can have in flight at once
Width(a) ==
    CASE a \in {"name", "id", "spread", "onHuman", "chain"} -> 1
      [] a = "typename" -> 0
      [] a = "inline" -> 2

RECURSIVE TotalWidth(_)
TotalWidth(as) ==
    IF as = <<>> THEN 0 ELSE Width(Head(as)) + TotalWidth(Tail(as))

\* selection sets in which only the fragment spread is repeated; keys still
\* repeat across atoms (id is selected directly, by the fragment F and by
\* both inline fragments)
Shapes ==
    {as \in UNION {[1..n -> Atoms] : n \in 1..MaxSel} :
        /\ TotalWidth(as) <= MaxWidth
        /\ \A j, k \in DOMAIN as :
               as[j] = as[k] => (j = k \/ as[j] = "spread")}

\* the instance is read only by __typename and by type conditions
InstancesFor(as) ==
    IF \E k \in DOMAIN as : as[k] \in {"typename", "onHuman"}
    THEN RootInstances ELSE {Both}

Document(as) == [k \in 1..Len(as) |-> Atom(as[k], k)]

Init ==
    /\ \E as \in Shapes : \E inst \in InstancesFor(as) :
           frames = [q \in {<<>>} |->
                        Frame(Document(as), "Character", inst, <<>>)]
    /\ errors = <<>>
    /\ panic = NoPanic
    /\ call = NoCall

Next ==
    \/ (\E p \in DOMAIN frames : BuildField(p)) /\ UNCHANGED call
    \/ (\E p \in DOMAIN frames : BuildFragmentSpread(p)) /\ UNCHANGED call
    \/ (\E p \in DOMAIN frames : BuildInlineFragment(p)) /\ UNCHANGED call
    \/ (\E p \in DOMAIN frames : InlineReturn(p)) /\ UNCHANGED call
    \/ (\E p \in DOMAIN frames : \E n \in DOMAIN frames[p].queue : StartField(p, n)) /\ UNCHANGED call
    \/ (\E p \in DOMAIN frames : \E n \in DOMAIN frames[p].queue : ResolveLeaf(p, n)) /\ UNCHANGED call
    \/ (\E p \in DOMAIN frames : \E n \in DOMAIN frames[p].queue : ResolveObject(p, n)) /\ UNCHANGED call
    \/ (\E p \in DOMAIN frames : \E n \in DOMAIN frames[p].queue : FieldReturn(p, n)) /\ UNCHANGED call
    \/ (\E p \in DOMAIN frames : \E n \in DOMAIN frames[p].queue : StartNested(p, n)) /\ UNCHANGED call
    \/ (\E p \in DOMAIN frames : \E n \in DOMAIN frames[p].queue : NestedReturn(p, n)) /\ UNCHANGED call
    \/ (\E p \in DOMAIN frames : \E n \in DOMAIN frames[p].queue : PollInlineKey(p, n)) /\ UNCHANGED call
    \/ (\E p \in DOMAIN frames : Drain(p)) /\ UNCHANGED call
    \/ (\E p \in DOMAIN frames : Return(p)) /\ UNCHANGED call

Spec == Init /\ [][Next]_vars

\* every resolver invocation eventually completes, and every step of the
\* resolution that can be taken eventually is
Fairness == WF_vars(Next)

SpecLive == Init /\ [][Next]_vars /\ Fairness

(***************************************************************************)
(* The same resolution with the outcome of every resolver fixed before the *)
(* query starts: call.plan gives, for each field, what its resolver will   *)
(* return whenever it completes.  Only the order of the steps is free.     *)
(***************************************************************************)
Plans ==
    [id : {"ok", "null", "err"}, name : {"ok", "err"},
     friend : {"some", "none", "err"}, best : {"some", "err"}]

\* the result the plan gives the resolver of field fname
Planned(plan, fname, res) ==
    CASE plan[fname] \in {"ok", "some"} -> res.tag = "Ok" /\ res.value # NullV
      [] plan[fname] \in {"null", "none"} -> res = Ok(NullV)
      [] plan[fname] = "err" -> res = Err

\* a resolver that completes in this step returns what the plan says: a
\* running future ends with the planned result, and goes on to resolve a
\* child only if the plan yields one
FollowsPlan ==
    \A p \in DOMAIN frames : \A n \in DOMAIN frames[p].queue :
        LET u == frames[p].queue[n]
            fname == frames[p].sels[u.sel].name
        IN (u.kind = "Field" /\ u.st = "running") =>
              /\ frames'[p].queue[n].st = "done"
                     => Planned(call.plan, fname, frames'[p].queue[n].res)
              /\ frames'[p].queue[n].st = "awaiting"
                     => call.plan[fname] = "some"

InitOrder ==
    /\ \E as \in Shapes : \E inst \in InstancesFor(as) :
           frames = [q \in {<<>>} |->
                        Frame(Document(as), "Character", inst, <<>>)]
    /\ errors = <<>>
    /\ panic = NoPanic
    /\ \E plan \in Plans : call = [plan |-> plan]

NextOrder == Next /\ FollowsPlan

SpecOrder == InitOrder /\ [][NextOrder]_vars

(***************************************************************************)
(* A second family of documents: selections with directives, fields with   *)
(* arguments, selections the schema cannot serve, resolved against the     *)
(* interface, against an object type and against the type Plain.           *)
(***************************************************************************)
EdgeAtoms ==
    {"skipName", "keepName", "inclNoSpread", "skipOnHuman", "skipInline",
     "ghostField", "spreadG", "alien", "onGhost", "onDroid", "onPlain",
     "friendBare", "greetVar", "greetNone", "greetBad", "shoutNone",
     "shoutLit", "typename", "onHuman"}

Companions == {"name", "id", "spread", "chain"}

EdgeAtom(a, k) ==
    CASE a = "skipName" ->
            Directed(Field("", "name", k, <<>>), <<Skip("yes")>>)
      [] a = "keepName" ->
            Directed(Field("", "name", k, <<>>),
                     <<Skip("no"), Include("yes")>>)
      [] a = "inclNoSpread" ->
            Directed(FragmentSpread("F", k), <<Include("no")>>)
      [] a = "skipOnHuman" ->
            Directed(InlineFragment("Human", k,
                                    <<Field("", "id", 10 * k + 1, <<>>)>>),
                     <<Skip("yes")>>)
      [] a = "skipInline" ->
            Directed(InlineFragment("", k,
                                    <<Field("", "id", 10 * k + 1, <<>>)>>),
                     <<Include("yes"), Skip("yes")>>)
      [] a = "ghostField" -> Field("", "ghost", k, <<>>)
      [] a = "spreadG" -> FragmentSpread("G", k)
      [] a = "alien" ->
            Field("", "alien", k, <<Field("", "id", 10 * k + 1, <<>>)>>)
      [] a = "onGhost" ->
            InlineFragment("Ghost", k, <<Field("", "id", 10 * k + 1, <<>>)>>)
      [] a = "onDroid" ->
            InlineFragment("Droid", k, <<Field("", "name", 10 * k + 1, <<>>)>>)
      [] a = "onPlain" ->
            InlineFragment("Plain", k,
                <<Directed(Field("", "name", 10 * k + 1, <<>>),
                           <<Skip("yes")>>)>>)
      [] a = "friendBare" -> Field("", "friend", k, <<>>)
      [] a = "greetVar" ->
            WithArguments(Field("", "greet", k, <<>>),
                          <<[k |-> "who", v |-> VariableI("w")]>>)
      [] a = "greetNone" -> Field("", "greet", k, <<>>)
      [] a = "greetBad" ->
            WithArguments(Field("", "greet", k, <<>>),
                          <<[k |-> "who", v |-> IntI("1")]>>)
      [] a = "shoutNone" -> Field("", "shout", k, <<>>)
      [] a = "shoutLit" ->
            WithArguments(Field("", "shout", k, <<>>),
                          <<[k |-> "text", v |-> StringI("hey")]>>)
      [] OTHER -> Atom(a, k)

\* the field futures an atom makes
EdgeWidth(a) ==
    IF a = "chain" THEN 2
    ELSE IF a \in Atoms THEN Width(a)
    ELSE IF a \in {"skipName", "inclNoSpread", "skipOnHuman", "skipInline"}
    THEN 0 ELSE 1

RECURSIVE TotalEdgeWidth(_)
TotalEdgeWidth(as) ==
    IF as = <<>> THEN 0 ELSE EdgeWidth(Head(as)) + TotalEdgeWidth(Tail(as))

\* selection sets of distinct atoms with exactly one atom of the second
\* family
EdgeShapes ==
    {as \in UNION {[1..n -> EdgeAtoms \cup Companions] : n \in 1..MaxSel} :
        /\ TotalEdgeWidth(as) <= MaxWidth
        /\ \A j, k \in DOMAIN as : as[j] = as[k] => j = k
        /\ Cardinality({k \in DOMAIN as : as[k] \in EdgeAtoms}) = 1}

\* the types and instances a document is resolved against: the instance is
\* read only by __typename and by type conditions
EdgeRoots(as) ==
    IF \E k \in DOMAIN as :
           as[k] \in {"typename", "onHuman", "onGhost", "onDroid", "onPlain",
                      "skipOnHuman"}
    THEN {[tname |-> "Character", inst |-> i] :
              i \in {Both, R2D2, Faulty, Nobody}}
         \cup {[tname |-> "Droid", inst |-> R2D2],
               [tname |-> "Plain", inst |-> Nobody]}
    ELSE {[tname |-> "Character", inst |-> Both],
          [tname |-> "Plain", inst |-> Nobody]}

EdgeDocument(as) == [k \in 1..Len(as) |-> EdgeAtom(as[k], k)]

InitEdge ==
    /\ \E as \in EdgeShapes : \E r \in EdgeRoots(as) :
           frames = [q \in {<<>>} |->
                        Frame(EdgeDocument(as), r.tname, r.inst, <<>>)]
    /\ errors = <<>>
    /\ panic = NoPanic
    /\ call = NoCall

SpecEdge == InitEdge /\ [][Next]_vars

(***************************************************************************)
(* What a returned activation can be compared with: the contributions of   *)
(* its selections, taken in declaration order.                             *)
(***************************************************************************)
Returned(p) == frames[p].pc = "done"

ReturnedObject(p) == Returned(p) /\ frames[p].ret.tag = "Object"

Excluded(sel) == is_excluded(sel.directives, Variables)

IsTypename(sel) == sel.kind = "Field" /\ sel.name = "__typename"

\* the future made from field selection i of frame p
UnitOf(p, i) ==
    frames[p].queue[CHOOSE n \in DOMAIN frames[p].queue :
                        frames[p].queue[n].sel = i]

\* the key-value pairs selection i hands to the object of frame p
Contribution(p, i) ==
    LET f   == frames[p]
        sel == f.sels[i]
        c   == Child(p, i)
    IN IF Excluded(sel) THEN <<>>
       ELSE IF IsTypename(sel)
       THEN <<[k |-> response_name(sel),
               v |-> ScalarV([str |-> concrete_type_name(f.tname, f.inst),
                              src |-> <<>>])]>>
       ELSE IF sel.kind = "Field"
       THEN <<[k |-> response_name(sel), v |-> UnitOf(p, i).out.value]>>
       ELSE IF c \in DOMAIN frames /\ frames[c].ret.tag = "Object"
       THEN frames[c].ret.kv
       ELSE <<>>

\* the contributions of all selections of frame p, in declaration order
Contributions(p) ==
    LET RECURSIVE Go(_)
        Go(i) == IF i > Len(frames[p].sels) THEN <<>>
                 ELSE Contribution(p, i) \o Go(i + 1)
    IN Go(1)

\* the keys of a list of pairs, each at the place of its first occurrence
FirstKeys(kv) ==
    LET RECURSIVE Go(_, _)
        Go(n, seen) ==
            IF n > Len(kv) THEN seen
            ELSE IF \E m \in 1..Len(seen) : seen[m] = kv[n].k
            THEN Go(n + 1, seen)
            ELSE Go(n + 1, Append(seen, kv[n].k))
    IN Go(1, <<>>)

NoTypename(sels) == \A i \in DOMAIN sels : ~IsTypename(sels[i])

\* C1: in every activation that returned an Object and whose selections are
\* ordinary fields, fragment spreads and inline fragments, the keys of the
\* Object stand in the declaration order of the selections that produced
\* them, each key at the place of its first contributing selection, whatever
\* the order in which the resolvers completed.
C1_KeysInDeclarationOrder ==
    \A p \in DOMAIN frames :
        (ReturnedObject(p) /\ NoTypename(frames[p].sels))
            => Keys(frames[p].ret.kv) = FirstKeys(Contributions(p))

\* the root returned an Object with keys of two selections whose resolvers
\* completed against declaration order: both failed, the second one first
C1_Witness ==
    /\ ReturnedObject(<<>>)
    /\ NoTypename(frames[<<>>].sels)
    /\ Len(frames[<<>>].ret.kv) = 2
    /\ Len(errors) = 2
    /\ errors[1].pos = 2
    /\ errors[2].pos = 1

\* the selections of frame p are ordinary fields declared nullable, none
\* excluded, under pairwise different response keys
NullableSiblings(p) ==
    LET sels == frames[p].sels
    IN /\ \A i \in DOMAIN sels :
              /\ sels[i].kind = "Field"
              /\ ~IsTypename(sels[i])
              /\ ~Excluded(sels[i])
              /\ ~MetaFields[sels[i].name].non_null
       /\ \A i, j \in DOMAIN sels :
              response_name(sels[i]) = response_name(sels[j]) => i = j

\* q is p or an activation below p
Under(p, q) == q = p \/ IsPrefix(p, q)

\* the entries of the error sink recorded by frame p or below it
ErrorsUnder(p) ==
    SelectSeq(errors, LAMBDA e :
        /\ Len(frames[p].epath) <= Len(e.path)
        /\ SubSeq(e.path, 1, Len(frames[p].epath)) = frames[p].epath)

\* exactly one resolver of frame p returned an error, the others succeeded,
\* and no resolver below p returned an error
OneSiblingFailed(p) ==
    /\ \A n \in DOMAIN frames[p].queue : frames[p].queue[n].res.tag # ""
    /\ Cardinality({n \in DOMAIN frames[p].queue :
                        frames[p].queue[n].res.tag = "Err"}) = 1
    /\ \A q \in DOMAIN frames :
           IsPrefix(p, q) =>
               \A n \in DOMAIN frames[q].queue : frames[q].queue[n].res.tag # "Err"

\* C2: when the sibling fields of a selection set are all nullable and exactly
\* one resolver returned an error, the Object returned holds the value every
\* other resolver returned, Null under the failed field's key, and the error
\* sink holds exactly one entry, at the failed field's start position,
\* whatever the order in which the resolvers completed.
C2_OneFailureAmongNullableSiblings ==
    \A p \in DOMAIN frames :
        (Returned(p) /\ NullableSiblings(p) /\ OneSiblingFailed(p)) =>
            LET f == frames[p]
            IN /\ f.ret.tag = "Object"
               /\ Len(f.ret.kv) = Len(f.sels)
               /\ \A n \in DOMAIN f.queue :
                      /\ HasKey(f.ret.kv, f.queue[n].name)
                      /\ Get(f.ret.kv, f.queue[n].name) =
                             IF f.queue[n].res.tag = "Err" THEN NullV
                             ELSE f.queue[n].res.value
                      /\ f.queue[n].res.tag = "Err" =>
                             ErrorsUnder(p) =
                                 <<[pos  |-> f.sels[f.queue[n].sel].pos,
                                    path |-> Append(f.epath, f.queue[n].name)]>>

\* two nullable siblings, the first resolved to a value after the second
\* had failed, and the root has returned
C2_Witness ==
    /\ Returned(<<>>)
    /\ NullableSiblings(<<>>)
    /\ OneSiblingFailed(<<>>)
    /\ Len(frames[<<>>].queue) = 2
    /\ frames[<<>>].queue[2].res.tag = "Err"
    /\ frames[<<>>].queue[1].res.value.tag = "Scalar"

\* future n of frame p belongs to a field declared non-null whose resolver
\* returned an error or Ok(Null)
NonNullFailed(p, n) ==
    LET u == frames[p].queue[n]
    IN /\ u.kind = "Field"
       /\ MetaFields[frames[p].sels[u.sel].name].non_null
       /\ \/ u.res.tag = "Err"
          \/ u.res.tag = "Ok" /\ u.res.value = NullV

\* C3: when the resolver of a field declared non-null returned an error or
\* Null, the activation that selected the field returns Null: none of the
\* values its siblings produced is in the returned value, whatever the order
\* in which they completed.
C3_NonNullFailureCollapses ==
    \A p \in DOMAIN frames :
        Returned(p) =>
            \A n \in DOMAIN frames[p].queue :
                NonNullFailed(p, n) => frames[p].ret = NullV

\* the second field of the root is non-null and failed, the first one had
\* produced a value that was already merged, and the root returned Null
C3_Witness ==
    /\ Returned(<<>>)
    /\ Len(frames[<<>>].queue) = 2
    /\ NonNullFailed(<<>>, 2)
    /\ frames[<<>>].queue[1].st = "taken"
    /\ Len(frames[<<>>].object) = 1
    /\ frames[<<>>].ret = NullV

\* the keys contributed to frame p are pairwise different
DistinctKeys(p) ==
    \A a, b \in DOMAIN Contributions(p) :
        Contributions(p)[a].k = Contributions(p)[b].k => a = b

Range(seq) == {seq[n] : n \in DOMAIN seq}

\* the output of future m makes the drain loop of frame p return Null
Collapsing(p, m) ==
    LET u == frames[p].queue[m]
    IN /\ u.st \in {"done", "taken"}
       /\ \/ u.out.av = "Field" /\ u.out.value = NoneV
          \/ u.out.av = "Nested" /\ u.out.value = NullV

\* future n of frame p belongs to an object field whose selection set was
\* resolved to Null, and the future has completed
ChildCollapsed(p, n) ==
    LET u == frames[p].queue[n]
        c == Child(p, u.sel)
    IN /\ u.kind = "Field"
       /\ MetaFields[frames[p].sels[u.sel].name].object
       /\ u.st \in {"done", "taken"}
       /\ c \in DOMAIN frames
       /\ Returned(c)
       /\ frames[c].ret = NullV

\* C4: a selection set that collapsed to Null collapses the object around
\* its field when the field is declared non-null; at the first field declared
\* nullable the Null stops: the field's key is Null in the parent Object, the
\* contributions of the other selections of the parent are all kept, and the
\* parent returns Null only when another of its selections makes it.
C4_NullStopsAtNullableField ==
    \A p \in DOMAIN frames :
        \A n \in DOMAIN frames[p].queue :
            ChildCollapsed(p, n) =>
                LET f == frames[p]
                    u == f.queue[n]
                IN IF MetaFields[f.sels[u.sel].name].non_null
                   THEN /\ u.out.value = NoneV
                        /\ Returned(p) => f.ret = NullV
                   ELSE /\ u.out.value = NullV
                        /\ (Returned(p) /\ DistinctKeys(p)) =>
                               IF f.ret.tag = "Object"
                               THEN /\ Get(f.ret.kv, u.name) = NullV
                                    /\ Range(f.ret.kv) = Range(Contributions(p))
                               ELSE \E m \in DOMAIN f.queue :
                                        m # n /\ Collapsing(p, m)

\* friend { best { id } } beside a sibling: the failure of id collapsed the
\* selection sets of best and of friend, and the root returned an Object
\* with friend Null and the sibling's value
C4_Witness ==
    /\ ReturnedObject(<<>>)
    /\ Len(frames[<<>>].ret.kv) = 2
    /\ \E n \in DOMAIN frames[<<>>].queue :
           /\ ChildCollapsed(<<>>, n)
           /\ \E m \in DOMAIN frames[Child(<<>>, frames[<<>>].queue[n].sel)].queue :
                  ChildCollapsed(Child(<<>>, frames[<<>>].queue[n].sel), m)
           /\ Get(frames[<<>>].ret.kv, frames[<<>>].queue[n].name) = NullV
    /\ \E k \in DOMAIN frames[<<>>].ret.kv :
           frames[<<>>].ret.kv[k].v.tag = "Scalar"

\* selection i of frame p is a fragment that applies to the instance: a
\* fragment spread, an inline fragment without type condition, or an inline
\* fragment whose type condition matches
AppliedFragment(p, i) ==
    LET f   == frames[p]
        sel == f.sels[i]
    IN /\ ~Excluded(sel)
       /\ \/ sel.kind = "FragmentSpread"
          \/ sel.kind = "InlineFragment" /\ sel.cond = ""
          \/ /\ sel.kind = "InlineFragment"
             /\ sel.cond # ""
             /\ resolve_into_type(f.tname, f.inst, sel.cond) = "some"

\* C5: when the selection set of a fragment collapsed to Null because a
\* non-null field failed in it, the activation the fragment is merged into
\* returns Null as well, for a fragment spread, an inline fragment without
\* type condition and an inline fragment whose type condition matches.
C5_FragmentFailureCollapses ==
    \A p \in DOMAIN frames :
        \A i \in DOMAIN frames[p].sels :
            (/\ AppliedFragment(p, i)
             /\ Returned(p)
             /\ Child(p, i) \in DOMAIN frames
             /\ Returned(Child(p, i))
             /\ frames[Child(p, i)].ret = NullV)
                => frames[p].ret = NullV

\* a resolver of the selection set of frame p is suspended: the resolver of
\* one of its futures, or a resolver inside the downcast resolution that the
\* build loop awaits
Suspended(p) ==
    \/ \E n \in DOMAIN frames[p].queue : frames[p].queue[n].st = "running"
    \/ /\ frames[p].pc = "await"
       /\ \E n \in DOMAIN frames[Child(p, frames[p].i)].queue :
              frames[Child(p, frames[p].i)].queue[n].st = "running"

\* C6: the selections of one selection set are in flight together: while a
\* resolver of the selection set stays suspended, every future of the set
\* that has not started can start.
C6_SuspendedBlocksNoSibling ==
    \A p \in DOMAIN frames :
        \A n \in DOMAIN frames[p].queue :
            (/\ panic = NoPanic
             /\ frames[p].pc \in {"build", "await", "drain"}
             /\ Suspended(p)
             /\ frames[p].queue[n].st = "new")
                => ENABLED (\/ StartField(p, n)
                            \/ StartNested(p, n)
                            \/ PollInlineKey(p, n))

\* the value of the last pair of kv that has key k
LastValue(kv, k) ==
    kv[CHOOSE n \in DOMAIN kv :
           kv[n].k = k /\ \A m \in (n + 1)..Len(kv) : kv[m].k # k].v

\* C7: a response key contributed more than once to one selection set has
\* exactly one entry in the Object returned, and the entry carries the value
\* contributed last in declaration order.
C7_DuplicateKeyLastWins ==
    \A p \in DOMAIN frames :
        ReturnedObject(p) =>
            LET kv == frames[p].ret.kv
            IN /\ \A a, b \in DOMAIN kv : kv[a].k = kv[b].k => a = b
               /\ {kv[n].k : n \in DOMAIN kv} =
                      {Contributions(p)[n].k : n \in DOMAIN Contributions(p)}
               /\ \A n \in DOMAIN kv :
                      kv[n].v = LastValue(Contributions(p), kv[n].k)

\* the same fragment spread twice: the two resolutions produced different
\* values for the key, and the Object has one entry with the second value
C7_Witness ==
    /\ ReturnedObject(<<>>)
    /\ Len(frames[<<>>].sels) = 2
    /\ \A i \in {1, 2} : frames[<<>>].sels[i].kind = "FragmentSpread"
    /\ Len(frames[<<>>].ret.kv) = 1
    /\ Len(Contributions(<<>>)) = 2
    /\ Contributions(<<>>)[1].v # Contributions(<<>>)[2].v
    /\ frames[<<>>].ret.kv[1].v = Contributions(<<>>)[2].v

\* C8: a __typename selection is recorded under its response key with the
\* concrete type name of the instance, at the place the selection holds in
\* declaration order: the keys of the Object returned stand in the order of
\* the selections, __typename among them.
C8_TypenameInDeclarationOrder ==
    \A p \in DOMAIN frames :
        ReturnedObject(p) =>
            /\ \A i \in DOMAIN frames[p].sels :
                   (IsTypename(frames[p].sels[i]) /\ ~Excluded(frames[p].sels[i]))
                       => /\ HasKey(frames[p].ret.kv,
                                    response_name(frames[p].sels[i]))
                          /\ Get(frames[p].ret.kv,
                                 response_name(frames[p].sels[i])).tag = "Scalar"
            /\ Keys(frames[p].ret.kv) = FirstKeys(Contributions(p))

\* the build loop of frame p has gone past selection i
Processed(p, i) ==
    frames[p].pc \in {"drain", "done", "dropped"} \/ frames[p].i > i

\* C9: the type name recorded for __typename on the interface is the name of
\* the first instance resolver, in declaration order, that yields Some; for
\* an instance on which the resolvers of Human and of Droid both yield Some
\* it is Human, the one declared first.
C9_FirstMatchingResolverWins ==
    \A p \in DOMAIN frames :
        \A i \in DOMAIN frames[p].sels :
            (/\ IsTypename(frames[p].sels[i])
             /\ Processed(p, i)
             /\ frames[p].tname = "Character")
                => LET f == frames[p]
                       r == Get(f.object, response_name(f.sels[i])).s.str
                   IN /\ \E n \in DOMAIN InstanceResolvers :
                             /\ InstanceResolvers[n] = r
                             /\ f.inst[r]
                             /\ \A m \in 1..(n - 1) : ~f.inst[InstanceResolvers[m]]
                      /\ (f.inst.Human /\ f.inst.Droid) => r = "Human"

\* __typename was recorded for an instance on which both resolvers yield Some
C9_Witness ==
    \E i \in DOMAIN frames[<<>>].sels :
        /\ IsTypename(frames[<<>>].sels[i])
        /\ Processed(<<>>, i)
        /\ frames[<<>>].inst.Human
        /\ frames[<<>>].inst.Droid
        /\ HasKey(frames[<<>>].object, "__typename")

\* the query { __typename ... on Human { id } }
TypenameOnHuman == Document(<<"typename", "onHuman">>)

\* C10: { __typename ... on Human { id } } on a Droid returns the Object
\* { __typename: "Droid" } and records no error; in general an inline
\* fragment whose type condition names a candidate type the instance is not
\* adds no future and no key, records no error and does not make the
\* enclosing activation return Null.
C10_FragmentOnOtherTypeContributesNothing ==
    /\ (/\ frames[<<>>].sels = TypenameOnHuman
        /\ frames[<<>>].inst = R2D2
        /\ Returned(<<>>))
           => /\ frames[<<>>].ret =
                     ObjectV(<<[k |-> "__typename",
                                v |-> ScalarV([str |-> "Droid", src |-> <<>>])]>>)
              /\ errors = <<>>
    /\ \A p \in DOMAIN frames :
           \A i \in DOMAIN frames[p].sels :
               (/\ frames[p].sels[i].kind = "InlineFragment"
                /\ frames[p].tname = "Character"
                /\ frames[p].sels[i].cond \in Range(InstanceResolvers)
                /\ ~frames[p].inst[frames[p].sels[i].cond]
                /\ Processed(p, i))
                   => /\ Child(p, i) \notin DOMAIN frames
                      /\ \A n \in DOMAIN frames[p].queue :
                             frames[p].queue[n].sel # i
                      /\ \A n \in DOMAIN errors :
                             errors[n].pos # frames[p].sels[i].pos
                      /\ (Returned(p) /\ frames[p].ret = NullV) =>
                             \E m \in DOMAIN frames[p].queue : Collapsing(p, m)

\* the query has returned on a Droid
C10_Witness ==
    /\ frames[<<>>].sels = TypenameOnHuman
    /\ frames[<<>>].inst = R2D2
    /\ Returned(<<>>)

\* selection i of frame p is an inline fragment with a type condition whose
\* downcast resolution returned an error
DowncastFailed(p, i) ==
    LET f   == frames[p]
        sel == f.sels[i]
    IN /\ sel.kind = "InlineFragment"
       /\ sel.cond # ""
       /\ ~Excluded(sel)
       /\ Processed(p, i)
       /\ resolve_into_type(f.tname, f.inst, sel.cond) = "err"

\* the number of entries of the error sink at position pos
ErrorsAt(pos) == Cardinality({n \in DOMAIN errors : errors[n].pos = pos})

\* the Object an activation returned has the keys of the contributions of
\* its selections, each with the value contributed last
KeepsContributions(p) ==
    LET kv == frames[p].ret.kv
    IN /\ {kv[n].k : n \in DOMAIN kv} =
              {Contributions(p)[n].k : n \in DOMAIN Contributions(p)}
       /\ \A n \in DOMAIN kv :
              kv[n].v = LastValue(Contributions(p), kv[n].k)

\* C11: when the downcast resolution of an inline fragment with a type
\* condition returned an error, the sink holds exactly one error at the
\* start position of the fragment, on the path of the enclosing selection
\* set; the fragment adds no future and no key, the enclosing activation
\* returns Null only because of another selection, and an Object it returns
\* holds what the other selections contributed.
C11_DowncastErrorRecordedOnce ==
    \A p \in DOMAIN frames :
        \A i \in DOMAIN frames[p].sels :
            DowncastFailed(p, i) =>
                LET f == frames[p]
                IN /\ ErrorsAt(f.sels[i].pos) = 1
                   /\ \E n \in DOMAIN errors :
                          errors[n] = [pos |-> f.sels[i].pos, path |-> f.epath]
                   /\ Child(p, i) \notin DOMAIN frames
                   /\ \A n \in DOMAIN f.queue : f.queue[n].sel # i
                   /\ (Returned(p) /\ f.ret = NullV) =>
                          \E m \in DOMAIN f.queue : Collapsing(p, m)
                   /\ ReturnedObject(p) => KeepsContributions(p)

\* { name ... on Human { id } } on an instance whose Human value fails to
\* resolve: the root returned an Object that holds name, with one error
C11_Witness ==
    /\ ReturnedObject(<<>>)
    /\ Len(frames[<<>>].sels) = 2
    /\ DowncastFailed(<<>>, 2)
    /\ HasKey(frames[<<>>].ret.kv, "name")
    /\ Get(frames[<<>>].ret.kv, "name").tag = "Scalar"
    /\ Len(errors) = 1

\* the loop of frame p has gone past its selection i
Passed(p, i) == frames[p].i > i

\* the violations of schema consistency a selection set can hold: a field
\* the type's metadata does not have, __typename on an instance that no
\* instance resolver matches, a spread of a fragment the fragment table does
\* not have, an object field whose type the schema does not have
GhostField(p, i) ==
    LET sel == frames[p].sels[i]
    IN /\ sel.kind = "Field" /\ ~Excluded(sel) /\ ~IsTypename(sel)
       /\ ~field_by_name(frames[p].tname, sel.name)

UnmatchedInstance(p, i) ==
    /\ IsTypename(frames[p].sels[i]) /\ ~Excluded(frames[p].sels[i])
    /\ frames[p].tname = "Character"
    /\ \A n \in DOMAIN InstanceResolvers :
           ~frames[p].inst[InstanceResolvers[n]]

GhostFragment(p, n) ==
    /\ frames[p].queue[n].kind = "FragmentSpread"
    /\ ~fragment_by_name(frames[p].sels[frames[p].queue[n].sel].name)

GhostType(p, n) ==
    LET sel == frames[p].sels[frames[p].queue[n].sel]
    IN /\ frames[p].queue[n].kind = "Field"
       /\ MetaFields[sel.name].object
       /\ ~concrete_type_by_name(MetaFields[sel.name].of)

SchemaPanics ==
    {PanicNoField, PanicUnhandled, PanicNoFragment, PanicNoType}

\* no activation has gone past a violation it met
NoViolationPassed ==
    /\ \A p \in DOMAIN frames :
           /\ concrete_type_by_name(frames[p].tname)
           /\ \A i \in DOMAIN frames[p].sels :
                  (GhostField(p, i) \/ UnmatchedInstance(p, i)) => ~Passed(p, i)
           /\ \A n \in DOMAIN frames[p].queue :
                  /\ GhostFragment(p, n) =>
                         frames[p].queue[n].st \in {"new", "dropped"}
                  /\ GhostType(p, n) =>
                         /\ frames[p].queue[n].st # "awaiting"
                         /\ frames[p].queue[n].res.value.tag # "Object"
    /\ panic # NoPanic => ~Returned(<<>>)

\* C12: a selection of a field the metadata does not have, a nested
\* resolution of a type the schema does not have, a spread of a fragment the
\* fragment table does not have and __typename on an instance no instance
\* resolver matches end in a panic: no activation goes past the violation,
\* the step that panics adds nothing to the error sink and changes no
\* activation, and after it nothing is returned.
C12_SchemaViolationPanics ==
    /\ []NoViolationPassed
    /\ [][/\ panic = NoPanic
          /\ panic' # NoPanic => (errors' = errors /\ frames' = frames)]_vars

\* a spread of a missing fragment or a field of a missing type panicked
\* after a sibling had recorded an error: the sink still holds that one
\* entry and the root has not returned
C12_Witness ==
    /\ panic \in {PanicNoFragment, PanicNoType}
    /\ Len(errors) = 1
    /\ frames[<<>>].pc = "drain"
    /\ \E n \in DOMAIN frames[<<>>].queue :
           GhostFragment(<<>>, n) \/ GhostType(<<>>, n)

\* future n of frame p was made for a field one of whose declared arguments
\* is missing or malformed
BadArgument(p, n) ==
    /\ frames[p].queue[n].kind = "Field"
    /\ MissingArgument(frames[p].queue[n].args,
                       MetaArguments(frames[p].sels[frames[p].queue[n].sel].name))

\* C13: a field with a missing or malformed argument never aborts the
\* query; once its resolver has been invoked the field has failed like a
\* resolver that returned an error: one error at the field's position and,
\* for a nullable field, Null under its key.
C13_ArgumentErrorIsFieldError ==
    /\ panic # PanicNoArgument
    /\ \A p \in DOMAIN frames :
           \A n \in DOMAIN frames[p].queue :
               (BadArgument(p, n) /\ frames[p].queue[n].st \in {"done", "taken"})
                   => /\ frames[p].queue[n].res = Err
                      /\ frames[p].queue[n].out.value = NullV
                      /\ ErrorsAt(frames[p].sels[frames[p].queue[n].sel].pos) = 1

\* C14: a selection excluded by its directives has no future, no nested
\* activation and no instance resolver evaluated for it, records no error at
\* its position or below, and an Object the activation returns holds what
\* the other selections contributed.
C14_ExcludedContributesNothing ==
    \A p \in DOMAIN frames :
        \A i \in DOMAIN frames[p].sels :
            (Excluded(frames[p].sels[i]) /\ Passed(p, i)) =>
                LET f   == frames[p]
                    sel == f.sels[i]
                IN /\ \A n \in DOMAIN f.queue : f.queue[n].sel # i
                   /\ Child(p, i) \notin DOMAIN frames
                   /\ ErrorsAt(sel.pos) = 0
                   /\ \A j \in DOMAIN sel.sub : ErrorsAt(sel.sub[j].pos) = 0
                   /\ (\A j \in DOMAIN f.sels :
                          j # i => f.sels[j].kind # "InlineFragment"
                                   /\ ~IsTypename(f.sels[j]))
                          => f.evals = <<>>
                   /\ (Returned(p) /\ f.ret = NullV) =>
                          \E m \in DOMAIN f.queue : Collapsing(p, m)
                   /\ ReturnedObject(p) =>
                          /\ KeepsContributions(p)
                          /\ sel.kind = "Field" /\ (\A j \in DOMAIN f.sels :
                                 j # i => response_name(f.sels[j]) #
                                              response_name(sel))
                                 => ~HasKey(f.ret.kv, response_name(sel))

\* { ... on Human @skip(if: $yes) { id }  id }: the root returned the Object
\* of id alone; the fragment evaluated no instance resolver
C14_Witness ==
    /\ ReturnedObject(<<>>)
    /\ Len(frames[<<>>].sels) = 2
    /\ Excluded(frames[<<>>].sels[1])
    /\ frames[<<>>].sels[1].kind = "InlineFragment"
    /\ frames[<<>>].sels[1].cond = "Human"
    /\ frames[<<>>].evals = <<>>
    /\ Keys(frames[<<>>].ret.kv) = <<"id">>

\* every error a resolver returned, at any depth, is in the sink
AllErrorsInSink ==
    \A p \in DOMAIN frames :
        \A n \in DOMAIN frames[p].queue :
            frames[p].queue[n].res.tag = "Err" =>
                \E m \in DOMAIN errors :
                    errors[m] =
                        [pos  |-> frames[p].sels[frames[p].queue[n].sel].pos,
                         path |-> Append(frames[p].epath, frames[p].queue[n].name)]

\* C15: the activations of one query, at every depth, append to one error
\* sink, and the sink only grows: an entry stays where it is when the
\* object around the failing field collapses to Null or is dropped.
C15_OneSinkOnlyGrows ==
    /\ []AllErrorsInSink
    /\ [][/\ Len(errors') >= Len(errors)
          /\ SubSeq(errors', 1, Len(errors)) = errors]_vars

\* the root collapsed to Null and the sink holds the error of a field three
\* levels down
C15_Witness ==
    /\ Returned(<<>>)
    /\ frames[<<>>].ret = NullV
    /\ \E m \in DOMAIN errors : Len(errors[m].path) = 3

\* C16: a method called on Box<T>, &T or Arc<T> has the outcome (value,
\* error or panic) of the same method called on the wrapped T with the same
\* arguments, for every method of the two traits.
C16_WrapperForwardsEveryMethod ==
    call # NoCall => call.outer = call.inner

\* the three panics of the default methods of GraphQLTypeAsync
DefaultPanics == {PanicNoResolveField, PanicNoResolve, PanicNoDowncast}

\* no field of a type that keeps the default resolve_field_async is resolved
NoDefaultFieldResolved ==
    \A p \in DOMAIN frames : \A n \in DOMAIN frames[p].queue :
        frames[p].tname = "Plain" /\ frames[p].queue[n].kind = "Field"
            => frames[p].queue[n].st = "new"

\* a value is resolved by the default resolve_async only with a selection set
NoDefaultResolveWithoutSelection ==
    \A p \in DOMAIN frames : \A n \in DOMAIN frames[p].queue :
        LET u == frames[p].queue[n] IN
        u.kind = "Field" /\ u.st = "awaiting"
            => /\ frames[p].sels[u.sel].sub # <<>>
               /\ Child(p, u.sel) \in DOMAIN frames
               /\ frames[Child(p, u.sel)].sels = frames[p].sels[u.sel].sub

\* the default resolve_into_type_async lets only its own name through
DefaultDowncastOwnNameOnly ==
    \A p \in DOMAIN frames : \A i \in DOMAIN frames[p].sels :
        LET f == frames[p]
            sel == f.sels[i]
        IN (/\ f.tname # "Character"
            /\ sel.kind = "InlineFragment" /\ sel.cond # "" /\ ~Skips(sel)
            /\ (Passed(p, i) \/ (f.i = i /\ f.pc = "await")))
           => /\ sel.cond = f.tname
              /\ Child(p, i) \in DOMAIN frames
              /\ frames[Child(p, i)].sels = sel.sub

\* a default panic names the call that caused it
DefaultPanicCause ==
    /\ panic = PanicNoResolveField =>
           \E p \in DOMAIN frames : \E n \in DOMAIN frames[p].queue :
               /\ frames[p].tname = "Plain"
               /\ frames[p].queue[n].kind = "Field"
    /\ panic = PanicNoResolve =>
           \E p \in DOMAIN frames : \E n \in DOMAIN frames[p].queue :
               /\ frames[p].queue[n].kind = "Field"
               /\ frames[p].queue[n].st = "running"
               /\ frames[p].sels[frames[p].queue[n].sel].sub = <<>>
    /\ panic = PanicNoDowncast =>
           \E p \in DOMAIN frames :
               /\ frames[p].pc = "build" /\ frames[p].tname # "Character"
               /\ frames[p].sels[frames[p].i].kind = "InlineFragment"
               /\ frames[p].sels[frames[p].i].cond # frames[p].tname

\* the default resolve_async returns Ok of the selection-set resolution and
\* records nothing; a default panic records nothing either
DefaultResolveIsOk ==
    /\ \A p \in DOMAIN frames : \A n \in DOMAIN frames[p].queue :
           (/\ frames[p].queue[n].kind = "Field"
            /\ frames[p].queue[n].st = "awaiting"
            /\ frames'[p].queue[n].st = "done")
           => /\ frames'[p].queue[n].res =
                     Ok(frames[Child(p, frames[p].queue[n].sel)].ret)
              /\ errors' = errors
    /\ (panic = NoPanic /\ panic' \in DefaultPanics)
           => errors' = errors /\ frames' = frames

\* C17: with the default methods, resolve_field_async panics; resolve_async
\* panics without a selection set and otherwise returns Ok of the
\* selection-set resolution, never Err; resolve_into_type_async resolves the
\* value for its own type name and panics for any other; no such panic is
\* recorded as a query error.
C17_DefaultMethods ==
    /\ [](/\ NoDefaultFieldResolved
          /\ NoDefaultResolveWithoutSelection
          /\ DefaultDowncastOwnNameOnly
          /\ DefaultPanicCause)
    /\ [][DefaultResolveIsOk]_vars

\* a field without selection set reached the default resolve_async
C17_Witness ==
    /\ panic = PanicNoResolve
    /\ errors = <<>>
    /\ \E p \in DOMAIN frames : \E n \in DOMAIN frames[p].queue :
           /\ frames[p].queue[n].st = "running"
           /\ frames[p].sels[frames[p].queue[n].sel].sub = <<>>
           /\ MetaFields[frames[p].sels[frames[p].queue[n].sel].name].object

\* helper states of C17: each default panic, and the own-name downcast
C17_FieldPanic == panic = PanicNoResolveField
C17_DowncastPanic == panic = PanicNoDowncast
C17_OwnName ==
    \E p \in DOMAIN frames : \E i \in DOMAIN frames[p].sels :
        /\ frames[p].tname = "Plain" /\ frames[p].sels[i].cond = "Plain"
        /\ Passed(p, i)
C17_OkReturn ==
    \E p \in DOMAIN frames : \E n \in DOMAIN frames[p].queue :
        /\ frames[p].queue[n].kind = "Field"
        /\ frames[p].queue[n].st = "done"
        /\ MetaFields[frames[p].sels[frames[p].queue[n].sel].name].object
        /\ frames[p].queue[n].res.tag = "Ok"
        /\ frames[p].queue[n].res.value.tag = "Object"

\* the downcast of the typed inline fragment i of activation p was asked for
Downcast(p, i) ==
    /\ frames[p].sels[i].kind = "InlineFragment"
    /\ frames[p].sels[i].cond # ""
    /\ ~Excluded(frames[p].sels[i])
    /\ (Passed(p, i) \/ (frames[p].i = i /\ frames[p].pc = "await"))

\* the type names asked of activation p so far, in order
RECURSIVE RequestedNames(_, _)
RequestedNames(p, i) ==
    IF i = 0 THEN <<>>
    ELSE RequestedNames(p, i - 1) \o
             (IF Downcast(p, i) THEN <<frames[p].sels[i].cond>> ELSE <<>>)

IsCandidate(type_name) ==
    \E n \in DOMAIN InstanceResolvers : InstanceResolvers[n] = type_name

\* C18: resolve_into_type of the interface evaluates, for each requested type
\* name, the instance resolver declared for that name and no other; a value
\* it yields is resolved against the fragment's selection set as that type;
\* a requested name that no candidate declares is fatal: the fragment is
\* never passed.
C18_OnlyMatchingArmEvaluated ==
    \A p \in DOMAIN frames :
        LET f == frames[p] IN
        (f.tname = "Character" /\ NoTypename(f.sels)) =>
            /\ f.evals = RequestedNames(p, Len(f.sels))
            /\ \A i \in DOMAIN f.sels : Downcast(p, i) =>
                   /\ IsCandidate(f.sels[i].cond)
                   /\ (f.inst[f.sels[i].cond] /\ ~f.inst.err) =>
                          /\ Child(p, i) \in DOMAIN frames
                          /\ frames[Child(p, i)].tname = f.sels[i].cond
                          /\ frames[Child(p, i)].inst = f.inst
                          /\ frames[Child(p, i)].sels = f.sels[i].sub
                   /\ ~(f.inst[f.sels[i].cond] /\ ~f.inst.err) =>
                          Child(p, i) \notin DOMAIN frames

\* { ... on Droid { name } } on an instance for which the resolvers of Human
\* (declared first) and of Droid both yield a value: only Droid's was
\* evaluated, and its value was resolved as a Droid
C18_Witness ==
    /\ frames[<<>>].tname = "Character"
    /\ frames[<<>>].inst = Both
    /\ \E i \in DOMAIN frames[<<>>].sels :
           /\ Downcast(<<>>, i)
           /\ frames[<<>>].sels[i].cond = "Droid"
           /\ frames[<<>>].evals = <<"Droid">>
           /\ frames[Child(<<>>, i)].pc = "done"
           /\ frames[Child(<<>>, i)].tname = "Droid"

\* the requested name Ghost is declared by no candidate
C18_Fatal ==
    /\ panic = PanicUnhandled
    /\ frames[<<>>].sels[frames[<<>>].i].kind = "InlineFragment"
    /\ frames[<<>>].sels[frames[<<>>].i].cond = "Ghost"

\* the activation that created activation p, and the selection it came from
Parent(p) == SubSeq(p, 1, Len(p) - 1)

Origin(p) == frames[Parent(p)].sels[p[Len(p)]]

\* the context of every activation: the root's is the query's; the value of a
\* field that narrows runs on the narrowed context, every other activation
\* on the context of the activation that created it
ContextScoped ==
    \A p \in DOMAIN frames :
        frames[p].ctx =
            IF p = <<>> THEN RootContext
            ELSE IF Origin(p).kind = "Field" /\ MetaFields[Origin(p).name].narrows
            THEN NarrowContext(Origin(p).name)
            ELSE frames[Parent(p)].ctx

\* no step changes the context of an existing activation, and a field that
\* completes from its resolver alone (Err, or Ok(Null) for no value) creates
\* no activation
ContextNeverMutated ==
    /\ \A p \in DOMAIN frames :
           p \in DOMAIN frames' /\ frames'[p].ctx = frames[p].ctx
    /\ \A p \in DOMAIN frames : \A n \in DOMAIN frames[p].queue :
           (/\ frames[p].queue[n].kind = "Field"
            /\ frames[p].queue[n].st = "running"
            /\ frames'[p].queue[n].st = "done")
           => /\ DOMAIN frames' = DOMAIN frames
              /\ Child(p, frames[p].queue[n].sel) \notin DOMAIN frames

\* C19: the value a field resolver yields together with a narrower context is
\* resolved in an activation whose context is the new one; the context of
\* the enclosing activation, which its sibling fields see, never changes; a
\* resolver that yields no value completes the field with Null and creates
\* no activation and no context.
C19_ContextReplacedNotMutated ==
    []ContextScoped /\ [][ContextNeverMutated]_vars

\* friend { best { id } }: the value of best returned from an activation on
\* the narrowed context while friend's activation is still on the root's
C19_Witness ==
    \E p \in DOMAIN frames :
        /\ p # <<>>
        /\ Origin(p).kind = "Field" /\ Origin(p).name = "best"
        /\ frames[p].pc = "done"
        /\ frames[p].ctx = NarrowContext("best")
        /\ frames[Parent(p)].ctx = RootContext
        /\ frames[<<>>].ctx = RootContext

\* best completed with Null from its resolver: no activation on a narrowed
\* context exists
C19_NoValue ==
    /\ \E p \in DOMAIN frames : \E n \in DOMAIN frames[p].queue :
           /\ frames[p].queue[n].kind = "Field"
           /\ frames[p].sels[frames[p].queue[n].sel].name = "best"
           /\ frames[p].queue[n].res = Ok(NullV)
           /\ Child(p, frames[p].queue[n].sel) \notin DOMAIN frames
    /\ \A p \in DOMAIN frames : frames[p].ctx = RootContext

\* the executor's current value of an argument written in the query
Substituted(v) == IF v.t = "Variable" THEN Variables[v.x] ELSE v

Provided(sel, k) ==
    \E n \in DOMAIN sel.arguments : sel.arguments[n].k = k

Holds(args, k, v) == \E m \in DOMAIN args : args[m] = [k |-> k, v |-> v]

\* the arguments args are those of the field selection sel
ArgumentsBuilt(args, sel) ==
    /\ \A n \in DOMAIN sel.arguments :
           Holds(args, sel.arguments[n].k, Substituted(sel.arguments[n].v))
    /\ \A d \in DOMAIN MetaArguments(sel.name) :
           LET a == MetaArguments(sel.name)[d] IN
           (~Provided(sel, a.name) /\ a.default # NoDefault)
               => Holds(args, a.name, a.default)
    /\ \A m \in DOMAIN args :
           /\ args[m].v.t # "Variable"
           /\ \/ \E n \in DOMAIN sel.arguments :
                    args[m] = [k |-> sel.arguments[n].k,
                               v |-> Substituted(sel.arguments[n].v)]
              \/ \E d \in DOMAIN MetaArguments(sel.name) :
                    /\ ~Provided(sel, args[m].k)
                    /\ args[m] = [k |-> MetaArguments(sel.name)[d].name,
                                  v |-> MetaArguments(sel.name)[d].default]
    /\ \A m1, m2 \in DOMAIN args : args[m1].k = args[m2].k => m1 = m2

\* every queued field future, started or not, holds its built arguments
ArgumentsBuiltWhenQueued ==
    \A p \in DOMAIN frames : \A n \in DOMAIN frames[p].queue :
        frames[p].queue[n].kind = "Field" =>
            ArgumentsBuilt(frames[p].queue[n].args,
                           frames[p].sels[frames[p].queue[n].sel])

\* the arguments of a queued future never change
ArgumentsFixed ==
    \A p \in DOMAIN frames : \A n \in DOMAIN frames[p].queue :
        frames[p].queue[n].kind = "Field" =>
            /\ p \in DOMAIN frames' /\ n \in DOMAIN frames'[p].queue
            /\ frames'[p].queue[n].args = frames[p].queue[n].args

\* C20: the arguments of a field future are the arguments written in the
\* query, each variable reference replaced by the executor's value of the
\* variable, plus the declared default of every argument the query leaves
\* out; the future holds them from the step that queues it, before it is
\* first polled, and they never change afterwards.
C20_ArgumentsBuiltBeforeScheduling ==
    []ArgumentsBuiltWhenQueued /\ [][ArgumentsFixed]_vars

\* greet(who: $w) queued and not yet polled: who is the value of $w
C20_Witness ==
    \E p \in DOMAIN frames : \E n \in DOMAIN frames[p].queue :
        /\ frames[p].queue[n].kind = "Field"
        /\ frames[p].queue[n].st = "new"
        /\ frames[p].sels[frames[p].queue[n].sel].arguments =
               <<[k |-> "who", v |-> VariableI("w")]>>
        /\ frames[p].queue[n].args = <<[k |-> "who", v |-> StringI("Leia")]>>

\* greet without arguments, resolved: who was the declared default
C20_Default ==
    \E p \in DOMAIN frames : \E n \in DOMAIN frames[p].queue :
        /\ frames[p].queue[n].kind = "Field"
        /\ frames[p].queue[n].st = "done"
        /\ frames[p].sels[frames[p].queue[n].sel].name = "greet"
        /\ frames[p].sels[frames[p].queue[n].sel].arguments = <<>>
        /\ frames[p].queue[n].args = <<[k |-> "who", v |-> StringI("world")]>>

RECURSIVE Converted(_, _, _)
Converted(a, b, into) ==
    /\ b.tag = a.tag
    /\ a.tag = "Scalar" => b.s = into_another(a.s, into)
    /\ a.tag # "Scalar" => b.s = NoVariant
    /\ Len(b.l) = Len(a.l)
    /\ \A n \in DOMAIN a.l : Converted(a.l[n], b.l[n], into)
    /\ Keys(b.o) = Keys(a.o)
    /\ \A n \in DOMAIN a.o : Converted(a.o[n].v, b.o[n].v, into)

\* C22: map_scalar_value into the same scalar representation returns the
\* input tree; into another representation it returns a tree of the same
\* shape with every scalar leaf converted by into_another, for every tree.
C22_MapScalarValue ==
    call.op = "map_scalar_value" =>
        /\ call.into = call.from => call.output = call.input
        /\ call.into # call.from
               => /\ Converted(call.input, call.output, call.into)
                  /\ call.output.tag \in {"Null", "Scalar", "List", "Object"}

\* [{"a": 2147483648}] from MyScalarValue into DefaultScalarValue: the Long
\* leaf inside the object inside the list became a Float
C22_Witness ==
    /\ call.op = "map_scalar_value"
    /\ call.from = "MyScalarValue" /\ call.into = "DefaultScalarValue"
    /\ call.input.tag = "List" /\ Len(call.input.l) = 1
    /\ call.input.l[1].tag = "Object"
    /\ Keys(call.input.l[1].o) = <<"a">>
    /\ call.input.l[1].o[1].v.tag = "Scalar"
    /\ call.input.l[1].o[1].v.s.variant = "Long"
    /\ call.output.l[1].o[1].v.s.variant = "Float"
    /\ call.output # call.input

\* the texts joined by ", ", none after the last
RECURSIVE Joined(_)
Joined(texts) ==
    IF texts = <<>> THEN ""
    ELSE IF Len(texts) = 1 THEN texts[1]
    ELSE texts[1] \o ", " \o Joined(Tail(texts))

\* the rendering a value must have
RECURSIVE Rendering(_)
Rendering(v) ==
    CASE v.tag = "Null" -> "null"
      [] v.tag = "Scalar" ->
            IF v.s.variant = "String" THEN "\"" \o v.s.t.s \o "\""
            ELSE ScalarDisplay(v.s)
      [] v.tag = "List" ->
            "[" \o Joined([n \in 1..Len(v.l) |-> Rendering(v.l[n])]) \o "]"
      [] v.tag = "Object" ->
            "{" \o Joined([n \in 1..Len(v.o) |->
                              "\"" \o v.o[n].k \o "\": " \o Rendering(v.o[n].v)])
                \o "}"

\* C23: Display renders Null as null, a string scalar in double quotes, any
\* other scalar by its own rendering, a list as [ items joined by ", " ] and
\* an object as { "key": value pairs joined by ", " in insertion order };
\* nothing follows the last element, and the empty list and the empty object
\* render as [] and {}.
C23_DisplayRendering ==
    call.op = "display" =>
        /\ call.output = Rendering(call.input)
        /\ call.input = List(<<>>) => call.output = "[]"
        /\ call.input = Object(<<>>) => call.output = "{}"
        /\ call.input = Null => call.output = "null"

\* {"b": 1, "a": "foo"} rendered with its keys in insertion order
C23_Witness ==
    /\ call.op = "display"
    /\ call.input.tag = "Object"
    /\ Keys(call.input.o) = <<"b", "a">>
    /\ call.output = "{\"b\": 1, \"a\": \"foo\"}"

\* [2147483648, null] rendered
C23_List ==
    /\ call.op = "display"
    /\ call.output = "[2147483648, null]"

\* 2147483648, written out
TwoToThe31 == <<0, 0, 32768, 0>>

\* C24: { longField } under the representation with Long yields the Object
\* with the one key longField holding the Long scalar 2147483648
\* (i32::MAX + 1, outside the i32 range) and no errors.
C24_LongFieldExact ==
    call.op = "querying_long" =>
        /\ call.out.panic = NoPanic
        /\ call.out.errs = <<>>
        /\ call.out.result.tag = "Object"
        /\ Keys(call.out.result.o) = <<"longField">>
        /\ call.out.result.o[1].v = Scalar(From(I64(TwoToThe31)))
        /\ call.out.result.o[1].v.s.variant = "Long"
        /\ ~FitsI32(call.out.result.o[1].v.s.t.l)
        /\ Concat(Digits64(call.out.result.o[1].v.s.t.l)) = "2147483648"

C24_Witness ==
    /\ call.op = "querying_long"
    /\ call.out.result = Object(<<[k |-> "longField",
                                   v |-> Scalar(From(I64(TwoToThe31)))]>>)
    /\ fmt(call.out.result) = "{\"longField\": 2147483648}"

\* n is above the i32 range
AboveI32(n) == n[1] < 32768 /\ ~FitsI32(n)

\* C25: for every 64-bit integer n above the i32 range given as longArg, as
\* an integer literal in the query text or through a variable bound to a
\* Long scalar, longWithArg returns the Long scalar n and no errors.
C25_LongArgExact ==
    (/\ call.op = "querying_long_arg"
     /\ call.path \in {"literal", "variable"}
     /\ AboveI32(call.n))
    => /\ call.out.panic = NoPanic
       /\ call.out.errs = <<>>
       /\ call.out.result =
              Object(<<[k |-> "longWithArg", v |-> Scalar(From(I64(call.n)))]>>)

\* i64::MAX written as the literal 9223372036854775807 came back as a Long
C25_Witness ==
    /\ call.op = "querying_long_arg"
    /\ call.path = "literal"
    /\ call.n = I64Max
    /\ Concat(call.text) = "9223372036854775807"
    /\ call.out.result.o[1].v = Scalar(From(I64(I64Max)))

\* i32::MAX + 42 through the variable
C25_Variable ==
    /\ call.op = "querying_long_arg"
    /\ call.path = "variable"
    /\ call.n = Add64(I32Max, Small64(42))
    /\ call.out.result.o[1].v = Scalar(From(I64(call.n)))

\* C26: with the outcome of every resolver fixed, the errors in the list
\* when the root resolution returns are the same in every order of
\* completion.  In the order in which every future completes before the
\* first is drained, each queued future whose resolver fails has recorded its
\* error; so in every order, when the root has returned, every future that
\* was queued and whose resolver is to fail has its error in the list.
C26_ErrorSetOrderIndependent ==
    Returned(<<>>) =>
        \A p \in DOMAIN frames : \A n \in DOMAIN frames[p].queue :
            (/\ frames[p].queue[n].kind = "Field"
             /\ call.plan[frames[p].sels[frames[p].queue[n].sel].name] = "err")
            => ErrorsAt(frames[p].sels[frames[p].queue[n].sel].pos) >= 1

\* { id name } with both resolvers failing: returned Null with both errors
C26_Both ==
    /\ Returned(<<>>) /\ frames[<<>>].ret = NullV
    /\ Len(frames[<<>>].sels) = 2
    /\ frames[<<>>].sels[1].name = "id" /\ frames[<<>>].sels[2].name = "name"
    /\ call.plan.id = "err" /\ call.plan.name = "err"
    /\ Len(errors) = 2

\* the same, returned Null with the error of id alone
C26_One ==
    /\ Returned(<<>>) /\ frames[<<>>].ret = NullV
    /\ Len(frames[<<>>].sels) = 2
    /\ frames[<<>>].sels[1].name = "id" /\ frames[<<>>].sels[2].name = "name"
    /\ call.plan.id = "err" /\ call.plan.name = "err"
    /\ Len(errors) = 1

\* an error recorded at activation p or below it
ErrorBelow(p) ==
    \E n \in DOMAIN errors :
        /\ Len(errors[n].path) >= Len(frames[p].epath)
        /\ SubSeq(errors[n].path, 1, Len(frames[p].epath)) = frames[p].epath

\* C27: whenever an activation returns Null, the error list holds at least
\* one error recorded at that activation or below it.
C27_NullNeverSilent ==
    \A p \in DOMAIN frames :
        (Returned(p) /\ frames[p].ret = NullV) => ErrorBelow(p)

\* C28: every activation returns Null or an Object, so every value a fragment
\* spread or an inline fragment without type condition hands to the drain
\* loop is Null or an Object, and the unreachable arm of the drain loop is
\* never taken.
C28_NestedIsNullOrObject ==
    /\ panic # PanicUnreachable
    /\ \A p \in DOMAIN frames :
           /\ Returned(p) => frames[p].ret.tag \in {"Null", "Object"}
           /\ ~Returned(p) => frames[p].ret = NoneV
           /\ \A n \in DOMAIN frames[p].queue :
                  frames[p].queue[n].out.av = "Nested" =>
                      /\ frames[p].queue[n].kind \in
                             {"FragmentSpread", "InlineFragment2"}
                      /\ frames[p].queue[n].out.value.tag \in {"Null", "Object"}
                      /\ frames[p].queue[n].out.value =
                             frames[Child(p, frames[p].queue[n].sel)].ret

\* the drain loop took the Object a fragment spread resolved to, and the
\* activation returned
C28_Witness ==
    \E p \in DOMAIN frames : \E n \in DOMAIN frames[p].queue :
        /\ Returned(p)
        /\ frames[p].queue[n].kind = "FragmentSpread"
        /\ frames[p].queue[n].st = "taken"
        /\ frames[p].queue[n].out.av = "Nested"
        /\ frames[p].queue[n].out.value.tag = "Object"

\* the drain loop took the Null an inline fragment resolved to
C28_NullTaken ==
    \E p \in DOMAIN frames : \E n \in DOMAIN frames[p].queue :
        /\ Returned(p) /\ frames[p].ret = NullV
        /\ frames[p].queue[n].kind = "InlineFragment2"
        /\ frames[p].queue[n].out.av = "Nested"
        /\ frames[p].queue[n].out.value = NullV

\* the queue of activation p was drained completely
Drained(p) ==
    \A n \in DOMAIN frames[p].queue : frames[p].queue[n].st = "taken"

\* activation p stopped at future m: everything before it was taken, it
\* yielded a non-null failure, and nothing after it was taken
StoppedAt(p, m) ==
    /\ Collapsing(p, m)
    /\ frames[p].queue[m].st = "done"
    /\ \A k \in DOMAIN frames[p].queue :
           /\ k < m => frames[p].queue[k].st = "taken"
           /\ k > m => frames[p].queue[k].st # "taken"

ReturnsDrainedOrAtFirstFailure ==
    \A p \in DOMAIN frames :
        Returned(p) =>
            \/ frames[p].ret.tag = "Object" /\ Drained(p)
            \/ /\ frames[p].ret = NullV
               /\ \E m \in DOMAIN frames[p].queue : StoppedAt(p, m)

\* C29: if every resolver invocation eventually completes, the resolution of
\* the root selection set eventually returns; an activation returns an Object
\* after draining its whole queue, or Null at the first future, in queue
\* order, that yields a non-null failure, the futures after it not being
\* taken.
C29_EventuallyReturns ==
    <>Returned(<<>>) /\ []ReturnsDrainedOrAtFirstFailure

\* the root returned Null at its first future while the second had not
\* completed: it was dropped
C29_Witness ==
    /\ Returned(<<>>) /\ frames[<<>>].ret = NullV
    /\ Len(frames[<<>>].queue) = 2
    /\ StoppedAt(<<>>, 1)
    /\ frames[<<>>].queue[2].st = "dropped"
    /\ frames[<<>>].queue[2].res = NoRes

\* two variants of the list have the same type
SameTypeTwice(variants) ==
    \E m, n \in DOMAIN variants : m # n /\ variants[m] = variants[n]

\* C30: expansion of a union whose variant list holds the same type twice,
\* adjacent or not, emits the error "each union variant must have a different
\* type" and generates nothing; a definition is accepted only if its variant
\* types are pairwise different.
C30_SameTypeRejected ==
    (call.op = "expand" /\ ErrConflict \notin call.out.errs) =>
        /\ SameTypeTwice(call.out.variants) <=> ErrSameType \in call.out.errs
        /\ call.out.accepted => ~SameTypeTwice(call.out.variants)

\* methods returning A, A: rejected with the error
C30_Adjacent ==
    /\ call.op = "expand"
    /\ call.methods = <<"A", "A">>
    /\ call.out.errs = {ErrSameType}
    /\ ~call.out.accepted

\* fn(&self) -> Option<&T> or fn(&self, &Context) -> Option<&T>, not async
WellFormed(m) ==
    /\ m.receiver = "&self"
    /\ m.args \in {<<>>, <<"&Context">>}
    /\ m.ret = "Option<&T>"
    /\ ~m.async

SignatureErrors == {ErrOutput, ErrInput, ErrAsync}

\* the type is named by the n-th method only, and by no custom resolver
OnlyAt(n) ==
    /\ call.items[n].ty \notin call.custom
    /\ \A k \in DOMAIN call.items : k # n => call.items[k].ty # call.items[n].ty

\* C31: a method that is not ignored and whose signature is neither
\* fn(&self) -> Option<&T> nor fn(&self, &Context) -> Option<&T> (or that is
\* async) makes the expansion fail with an error at that method and generate
\* nothing; an ignored method causes no signature error and is no variant.
C31_BadSignatureRejected ==
    call.op = "trait" =>
        \A n \in DOMAIN call.items :
            LET m == call.items[n]
            IN /\ (~m.ignore /\ ~WellFormed(m)) =>
                     /\ ~call.out.accepted
                     /\ \E e \in call.out.errs :
                            e.at = n /\ e.msg \in SignatureErrors
               /\ m.ignore =>
                     /\ \A e \in call.out.errs :
                            e.at = n => e.msg \notin SignatureErrors
                     /\ OnlyAt(n) =>
                            \A k \in DOMAIN call.out.variants :
                                call.out.variants[k] # m.ty

\* a method taking &mut self is rejected at the method
C31_Witness ==
    /\ call.op = "trait"
    /\ call.items = <<TraitMethod("A", FALSE, FALSE, "&mut self", <<>>,
                                  "Option<&T>", FALSE), Plain("B")>>
    /\ ~call.out.accepted
    /\ call.out.errs = {[at |-> 1, msg |-> ErrInput]}

\* an ignored async method taking self by value is skipped, the union of the
\* other method is generated
C31_Ignored ==
    /\ call.op = "trait"
    /\ call.items = <<TraitMethod("A", TRUE, FALSE, "self", <<"Context">>,
                                  "", TRUE), Plain("B")>>
    /\ call.custom = {}
    /\ call.out.accepted
    /\ call.out.variants = <<"B">>

\* the types of the methods that become variants, in declaration order
RECURSIVE DeclaredTypes(_)
DeclaredTypes(items) ==
    IF items = <<>> THEN <<>>
    ELSE (IF Head(items).ignore THEN <<>> ELSE <<Head(items).ty>>)
         \o DeclaredTypes(Tail(items))

Occurrences(variants, ty) ==
    Cardinality({n \in DOMAIN variants : variants[n] = ty})

\* a generated definition resolves each of its variant types once
OneResolverEach ==
    (call.op = "trait" /\ call.out.accepted) =>
        \A n \in DOMAIN call.out.variants :
            Occurrences(call.out.variants, call.out.variants[n]) = 1

\* a method that is not ignored, for a type with a custom resolver, is
\* rejected with the conflict error at the method
ConflictRejected ==
    (call.op = "trait" /\ call.items \in AttributeItems) =>
        \A n \in DOMAIN call.items :
            (~call.items[n].ignore /\ call.items[n].ty \in call.custom) =>
                /\ ~call.out.accepted
                /\ [at |-> n, msg |-> ErrConflict] \in call.out.errs

\* the method-derived variants come first, in declaration order; each custom
\* resolver of another type adds one variant after them
CustomAfterMethods ==
    (call.op = "trait" /\ call.items \in AttributeItems /\ call.out.accepted) =>
        LET declared == DeclaredTypes(call.items)
            variants == call.out.variants
        IN /\ Len(variants) >= Len(declared)
           /\ SubSeq(variants, 1, Len(declared)) = declared
           /\ \A ty \in call.custom :
                  Cardinality({n \in Len(declared) + 1 .. Len(variants) :
                                  variants[n] = ty}) = 1
           /\ Len(variants) = Len(declared) + Cardinality(call.custom)

\* C32: every variant type of a generated union definition has exactly one
\* resolver: a method and a custom resolver for one type are rejected with the
\* conflict error unless the method is ignored, and a custom resolver for a
\* type without method adds one variant after the method-derived variants,
\* which keep their declaration order.
C32_OneResolverPerVariant ==
    /\ OneResolverEach
    /\ ConflictRejected
    /\ CustomAfterMethods

\* a conflict of a method with a custom resolver is rejected
C32_Conflict ==
    /\ call.op = "trait"
    /\ call.items = <<Plain("A"), Plain("B")>>
    /\ call.custom = {"B"}
    /\ call.out.errs = {[at |-> 2, msg |-> ErrConflict]}

\* a custom resolver of another type is the last variant
C32_CustomLast ==
    /\ call.op = "trait"
    /\ call.items = <<Plain("B"), Plain("A")>>
    /\ call.custom = {"C"}
    /\ call.out.accepted
    /\ call.out.variants = <<"B", "A", "C">>

\* an i32 as the i64 of the same number
Widen(i) ==
    IF i >= 0 THEN <<0, 0, i \div Limb, i % Limb>>
    ELSE LET j == (i + 2147483647) + 1
         IN <<65535, 65535, j \div Limb + 32768, j % Limb>>

\* the number held by an Int or a Long, as an i64
NumberOf(s) == IF s.variant = "Int" THEN Widen(s.t.i) ELSE s.t.l

\* C33: an unsigned integer that fits i64 is deserialized to the same number:
\* a u32 up to i32::MAX to Int, a larger u32 and every u64 up to i64::MAX to
\* Long; only a u64 above i64::MAX becomes Float; nothing becomes negative.
C33_UnsignedKeepsValue ==
    call.op = "visit" =>
        LET value == call.value
            out == call.out
        IN /\ out.variant =
                 (IF ~LeqU(value, I64MaxAsU64) THEN "Float"
                  ELSE IF call.ty = "u32" /\ LeqU(value, I32MaxAsU32) THEN "Int"
                  ELSE "Long")
           /\ out.variant \in {"Int", "Long"} =>
                 /\ NumberOf(out) = value
                 /\ NumberOf(out)[1] < 32768
           /\ out.variant = "Int" => out.t.i >= 0

\* the u32 4294967295 becomes the Long of the same number
C33_Witness ==
    /\ call.op = "visit"
    /\ call.ty = "u32"
    /\ call.value = <<0, 0, 65535, 65535>>
    /\ call.out = From(I64(<<0, 0, 65535, 65535>>))

\* the u64 2^63 becomes a Float
C33_Float ==
    /\ call.op = "visit"
    /\ call.ty = "u64"
    /\ call.value = <<32768, 0, 0, 0>>
    /\ call.out = From(F64("9223372036854775808"))

\* the number written by a token's digits is at most bound
RECURSIVE AtMost(_, _)
AtMost(digits, bound) ==
    IF Len(digits) > Len(bound) THEN Head(digits) = 0 /\ AtMost(Tail(digits), bound)
    ELSE IF Len(digits) < Len(bound) THEN TRUE
    ELSE IF digits = <<>> THEN TRUE
    ELSE IF Head(digits) # Head(bound) THEN Head(digits) < Head(bound)
    ELSE AtMost(Tail(digits), Tail(bound))

\* the integer literal fits i64: at most 2^63 - 1, or 2^63 after a minus sign
FitsI64(token) ==
    AtMost(token.digits,
           <<9, 2, 2, 3, 3, 7, 2, 0, 3, 6, 8, 5, 4, 7, 7, 5, 8, 0,
             IF token.neg THEN 8 ELSE 7>>)

LongTokenRule ==
    call.op = "from_str" =>
        IF call.token.kind = "Int" /\ FitsI64(call.token)
        THEN /\ call.out.ok
             /\ call.out.s.variant = "Long"
             /\ call.out.s.t.ty = "i64"
        ELSE /\ ~call.out.ok
             /\ call.out.err = ErrUnexpectedToken

LongInputRule ==
    call.op = "from_input_value" =>
        IF call.v.t = "Scalar" /\ call.v.s.variant = "Long"
        THEN call.out = Some(call.v.s.t.l)
        ELSE ~call.out.some

SmallLiteralAccepted ==
    (call.op = "querying_long_arg" /\ call.path = "literal") =>
        /\ call.out.panic = NoPanic
        /\ call.out.errs = <<>>
        /\ call.out.result = Object(<<[k |-> "longWithArg",
                                       v |-> Scalar(From(I64(call.n)))]>>)

\* C34: Long's from_input_value is Some only for a Long scalar; its from_str
\* is Ok only for an Int token whose number fits i64, and then the Long
\* variant, also for a number that fits 32 bits; anything else is
\* UnexpectedToken; a small integer literal given as longArg is accepted.
C34_LongInputOnly ==
    /\ LongTokenRule
    /\ LongInputRule
    /\ SmallLiteralAccepted

\* the token 7 with leading zeros is the Long 7
C34_Witness ==
    /\ call.op = "from_str"
    /\ call.token = ScalarToken("Int", FALSE, <<0, 0, 7>>)
    /\ call.out.ok
    /\ call.out.s = From(I64(Small64(7)))

\* the literal 5 as longArg
C34_SmallLiteral ==
    /\ call.op = "querying_long_arg"
    /\ call.path = "literal"
    /\ call.n = Small64(5)
    /\ call.out.result = Object(<<[k |-> "longWithArg",
                                   v |-> Scalar(From(I64(Small64(5))))]>>)

\* -9223372036854775808 is the least i64
C34_Least ==
    /\ call.op = "from_str"
    /\ call.token.neg
    /\ call.out.ok
    /\ call.out.s = From(I64(<<32768, 0, 0, 0>>))

\* an Int scalar is not accepted
C34_IntRefused ==
    /\ call.op = "from_input_value"
    /\ call.v = InputScalar(From(I32(1)))
    /\ ~call.out.some

\* the text is a Uuid in one of the forms parse_str reads
ValidUuid(text) ==
    \E u \in Uuids :
        text \in {Uuid_to_string(u), Upper(Uuid_to_string(u)),
                  SelectSeqAt(Uuid_to_string(u), Hyphens),
                  <<"u", "r", "n", ":", "u", "u", "i", "d", ":">>
                      \o Uuid_to_string(u)}

\* C35: from_input_value of the string value resolve produces for a Uuid u is
\* Some(u); from_input_value is None for an input that is no string and for a
\* string that is no valid Uuid; from_str is UnexpectedToken for every token
\* that is no string token.
C35_UuidRoundTrip ==
    /\ call.op = "uuid_resolve" =>
           /\ call.value.t = "Scalar" /\ call.value.variant = "String"
           /\ call.out = Some(call.u)
    /\ call.op = "uuid_from_input_value" =>
           /\ ~(call.v.t = "Scalar" /\ call.v.variant = "String") =>
                  ~call.out.some
           /\ (call.v.t = "Scalar" /\ call.v.variant = "String"
               /\ ~ValidUuid(call.v.text)) => ~call.out.some
    /\ call.op = "uuid_from_str" =>
           /\ call.token.kind # "String" =>
                  ~call.out.ok /\ call.out.err = ErrUnexpectedToken
           /\ call.token.kind = "String" =>
                  call.out.ok /\ call.out.s = Value_string(call.token.text)

\* the Uuid of the test comes back from its string
C35_Witness ==
    /\ call.op = "uuid_resolve"
    /\ call.value = Value_string(
           <<"1", "2", "3", "e", "4", "5", "6", "7", "-", "e", "8", "9", "b",
             "-", "1", "2", "d", "3", "-", "a", "4", "5", "6", "-", "4", "2",
             "6", "6", "5", "5", "4", "4", "0", "0", "0", "0">>)
    /\ call.out = Some(call.u)

\* a string with a character that is no hex digit is refused
C35_Invalid ==
    /\ call.op = "uuid_from_input_value"
    /\ call.v.variant = "String"
    /\ Len(call.v.text) = 36
    /\ call.v.text[1] = "g"
    /\ ~call.out.some

\* the view hands out x exactly when the value has the tag, nothing otherwise
Exactly(ret, tag, x) ==
    IF call.v.tag = tag THEN ret = Some(x) ELSE ret = None

\* C36: as_object_value, as_mut_object_value and into_object return the
\* object exactly for an Object, as_list_value the list exactly for a List,
\* as_scalar the scalar exactly for a Scalar, is_null is true exactly for
\* Null; the borrowing views leave the value as it was.
C36_ViewsMatchVariant ==
    call.op = "views" =>
        /\ Exactly(call.as_object_value.ret, "Object", call.v.o)
        /\ Exactly(call.as_mut_object_value.ret, "Object", call.v.o)
        /\ Exactly(call.into_object, "Object", call.v.o)
        /\ Exactly(call.as_list_value.ret, "List", call.v.l)
        /\ Exactly(call.as_scalar.ret, "Scalar", call.v.s)
        /\ call.is_null.ret <=> call.v.tag = "Null"
        /\ \A view \in {call.as_object_value, call.as_mut_object_value,
                        call.as_list_value, call.as_scalar} :
               view.self = call.v
        /\ call.is_null.self = call.v

\* an object of one list: only the object views hand something out
C36_Witness ==
    /\ call.op = "views"
    /\ call.v = Object(<<[k |-> "a", v |-> List(<<Null>>)]>>)
    /\ call.as_object_value.ret = Some(<<[k |-> "a", v |-> List(<<Null>>)]>>)
    /\ call.as_list_value.ret = None
    /\ call.as_scalar.ret = None
    /\ ~call.is_null.ret

====
